---- MODULE Spec2Model ----
(***************************************************************************)
(* Recording reconciliation of the Meet middleware.                        *)
(*                                                                         *)
(* Two Celery workers are modelled: "s" runs sync_meeting_recording_task   *)
(* and "b" runs sync_all_recordings_task.  Both call                       *)
(* RecordingSyncService.sync_meeting_recording, which reads the            *)
(* MeetingRecording table, queries the Meet Conference Records API and     *)
(* Google Drive, and writes the table through update_or_create.            *)
(*                                                                         *)
(* Optional numbers are encoded as sequences: <<>> is None, <<x>> is x.    *)
(* Optional strings use the string "NULL".                                 *)
(***************************************************************************)
EXTENDS Integers, Sequences, FiniteSets, TLC

VARIABLES
    dbEngine,   \* DATABASES['default']['ENGINE']: "sqlite3" or "postgresql"
    meetings,   \* Meeting table: id -> row (read-only for this subsystem)
    world,      \* what the external services answer: meeting id -> responses
    drive,      \* Google Drive: file id -> metadata served by files().get
    rows,       \* MeetingRecording table: set of rows
    nextId,     \* next auto-increment primary key of MeetingRecording
    now,        \* timezone.now(), in seconds
    task,       \* worker -> Celery task instance (state, retries, argument, result)
    pc,         \* worker -> position inside the task body
    svc,        \* worker -> the RecordingSyncService built by the running task
    cur,        \* worker -> locals of the running sync_meeting_recording call
    batch,      \* locals of the running sync_all_recordings call
    hist        \* history of the run (calls made, executions, commits)

vars == <<dbEngine, meetings, world, drive, rows, nextId, now, task, pc, svc, cur, batch, hist>>

----------------------------------------------------------------------------
(* Bounds of the model *)

RaceMeetings == 1
BatchMeetings == 3
MaxEnqueue == 1
MaxNow == 1
MaxCalls == 3
RankCandidates == 3
ListedRecordings == 3

(* Program constants *)

SingleMaxRetries == 3
BatchMaxRetries == 2

----------------------------------------------------------------------------
(* Values *)

NULL == "NULL"
None == << >>
Some(x) == << x >>
IsNone(o) == o = << >>
Val(o) == o[1]

Abs(x) == IF x < 0 THEN -x ELSE x
Min(a, b) == IF a <= b THEN a ELSE b

\* Python int(): truncation toward zero of n/d, d > 0.
TruncDiv(n, d) == IF n >= 0 THEN n \div d ELSE -((-n) \div d)

Workers == {"s", "b"}
MissingMeetingId == 99

----------------------------------------------------------------------------
(* Strings that the code takes apart are sequences of tokens: one token   *)
(* per character, and one token for the host part of a Meet URL.          *)

MeetHost == "meet.google.com/"

RECURSIVE LastIndexOf(_, _, _)
LastIndexOf(s, tok, i) ==
    IF i = 0 THEN 0
    ELSE IF s[i] = tok THEN i ELSE LastIndexOf(s, tok, i - 1)

RECURSIVE FirstIndexOf(_, _, _)
FirstIndexOf(s, tok, i) ==
    IF i > Len(s) THEN 0
    ELSE IF s[i] = tok THEN i ELSE FirstIndexOf(s, tok, i + 1)

\* s.split(tok)[-1]
AfterLast(s, tok) ==
    LET i == LastIndexOf(s, tok, Len(s))
    IN  SubSeq(s, i + 1, Len(s))

\* s.split(tok)[0]
BeforeFirst(s, tok) ==
    LET i == FirstIndexOf(s, tok, 1)
    IN  IF i = 0 THEN s ELSE SubSeq(s, 1, i - 1)

\* meet_link.split('meet.google.com/')[-1].split('?')[0].split('/')[0]
MeetingCode(meet_link) ==
    BeforeFirst(BeforeFirst(AfterLast(meet_link, MeetHost), "?"), "/")

\* str.startswith
StartsWith(s, prefix) ==
    /\ Len(prefix) <= Len(s)
    /\ SubSeq(s, 1, Len(prefix)) = prefix

\* the Python operator "prefix in s" on strings
Contains(s, part) ==
    \E i \in 1 .. (Len(s) - Len(part) + 1) :
        SubSeq(s, i, i + Len(part) - 1) = part

----------------------------------------------------------------------------
(* Meeting and MeetingRecording rows *)

MeetingRow(conf, ev, link, start, end, created, status) ==
    [conference_record_id |-> conf,
     google_event_id      |-> ev,
     meet_link            |-> link,
     scheduled_start      |-> start,
     scheduled_end        |-> end,
     created_at           |-> created,
     status               |-> status]

RecordingStates == {"STARTED", "ENDED", "FILE_GENERATED"}

NoUrl == <<"none", NULL>>

\* SQL NULL in the meet_link column (the column is NOT NULL, '' is <<>>)
NullLink == <<NULL>>

\* rows of the MeetingRecording table that belong to meeting m
RowsOf(table, m) == {r \in table : r.meeting = m}

\* hasattr(meeting, 'recording'): the reverse one-to-one accessor finds a row
HasRecording(table, m) == RowsOf(table, m) # {}

TheRow(table, m) == CHOOSE r \in RowsOf(table, m) : TRUE

----------------------------------------------------------------------------
(* Python values *)

\* a value of the query string, of a JSON body or of a metadata field: chars
\* holds the characters of a string, n an integer, or a float counted in
\* tenths
Raw(kind, chars, n) == [kind |-> kind, chars |-> chars, n |-> n]

\* no such key in the query string, in request.data or in the metadata
Absent == Raw("absent", << >>, 0)

Digits == <<"0", "1", "2", "3", "4", "5", "6", "7", "8", "9">>

RECURSIVE DecimalValue(_, _, _)
DecimalValue(chars, i, acc) ==
    IF i > Len(chars) THEN acc
    ELSE DecimalValue(chars, i + 1, 10 * acc + FirstIndexOf(Digits, chars[i], 1) - 1)

\* int(s) of a string: an optional sign and at least one digit, ValueError
\* (None) for anything else
IntOfStr(chars) ==
    LET signed == Len(chars) > 0 /\ chars[1] \in {"-", "+"}
        digits == IF signed THEN Tail(chars) ELSE chars
    IN  IF digits = << >> \/ \E i \in DOMAIN digits : FirstIndexOf(Digits, digits[i], 1) = 0
        THEN None
        ELSE Some(IF signed /\ chars[1] = "-"
                  THEN -DecimalValue(digits, 1, 0)
                  ELSE DecimalValue(digits, 1, 0))

\* int(v): a float is truncated toward zero; None where int raises
\* ValueError or TypeError
IntOf(v) ==
    CASE v.kind = "str"   -> IntOfStr(v.chars)
      [] v.kind = "int"   -> Some(v.n)
      [] v.kind = "float" -> Some(TruncDiv(v.n, 10))
      [] OTHER            -> None

\* the truth value Python gives to a string or a number
Truthy(v) ==
    CASE v.kind = "str"              -> v.chars # << >>
      [] v.kind \in {"int", "float"} -> v.n # 0
      [] OTHER                       -> FALSE

\* the interpreters the service may run on: before Python 3.11
\* datetime.fromisoformat reads only what isoformat() writes
Pythons == {"3.10", "3.11"}

\* an RFC 3339 string "...:SS[.f...]Z": second sec of the hour and, after
\* the point, `digits` digits that read frac
Stamp(sec, digits, frac) == [sec |-> sec, digits |-> digits, frac |-> frac]

\* the string of the instant t ms: a time of whole seconds is printed
\* without fraction, any other with three digits
Millis(t) == Stamp(t \div 1000, IF t % 1000 = 0 THEN 0 ELSE 3, t % 1000)

Pow10(n) == <<1, 10, 100, 1000, 10000, 100000, 1000000, 10000000, 100000000,
             1000000000>>[n + 1]

\* datetime.fromisoformat of the string with "+00:00" for "Z": a datetime
\* counts microseconds.  Before 3.11 a fraction has three or six digits or
\* the call raises ValueError (None); from 3.11 a fraction of any length is
\* read and the digits after the sixth are dropped
FromIsoFormat(ts, python) ==
    IF python = "3.10" /\ ts.digits \notin {0, 3, 6} THEN None
    ELSE Some(ts.sec * 1000000 +
              (IF ts.digits <= 6 THEN ts.frac * Pow10(6 - ts.digits)
               ELSE ts.frac \div Pow10(ts.digits - 6)))

----------------------------------------------------------------------------
(* Field extraction of the Reconciler *)

\* _parse_timestamp: an absent or empty timestamp gives None, and so does
\* one that fromisoformat rejects
ParseTimestamp(t, python) == IF IsNone(t) THEN None ELSE FromIsoFormat(Val(t), python)

\* _calculate_duration_from_timestamps: int((end - start).total_seconds())
CalculateDurationFromTimestamps(startTime, endTime, python) ==
    IF IsNone(startTime) \/ IsNone(endTime) THEN None
    ELSE LET start == ParseTimestamp(startTime, python)
             end   == ParseTimestamp(endTime, python)
         IN  IF ~IsNone(start) /\ ~IsNone(end)
             THEN Some(TruncDiv(Val(end) - Val(start), 1000000))
             ELSE None

\* _extract_duration_from_metadata: int(duration_ms) // 1000 of a
\* durationMillis that is true, None when it is absent or false or when int
\* raises
ExtractDurationFromMetadata(metadata) ==
    IF Truthy(metadata.durationMillis) /\ ~IsNone(IntOf(metadata.durationMillis))
    THEN Some(Val(IntOf(metadata.durationMillis)) \div 1000)
    ELSE None

\* _extract_available_date: the createdTime of the file as a datetime
ExtractAvailableDate(metadata, python) ==
    IF ~IsNone(metadata.createdTime)
    THEN FromIsoFormat(Val(metadata.createdTime), python)
    ELSE None

\* GoogleDriveClient.get_file_url
GetFileUrl(file_id) == <<"file/d/view", file_id>>

\* the defaults dictionary of _create_or_update_recording_from_api
ApiDefaults(recording_data, python) ==
    [drive_file_id        |-> recording_data.file,
     drive_file_url       |-> recording_data.exportUri,
     duration_seconds     |-> CalculateDurationFromTimestamps(
                                  recording_data.startTime, recording_data.endTime,
                                  python),
     recording_state      |-> recording_data.state,
     recording_start_time |-> ParseTimestamp(recording_data.startTime, python),
     recording_end_time   |-> ParseTimestamp(recording_data.endTime, python),
     available_at         |-> ParseTimestamp(recording_data.endTime, python)]

\* the defaults dictionary of _create_or_update_recording_from_drive
DriveDefaults(file_id, metadata, python) ==
    [drive_file_id    |-> file_id,
     drive_file_url   |-> IF metadata.webViewLink
                          THEN <<"webViewLink", file_id>>
                          ELSE GetFileUrl(file_id),
     duration_seconds |-> ExtractDurationFromMetadata(metadata),
     available_at     |-> ExtractAvailableDate(metadata, python)]

\* a new MeetingRecording(meeting=m, **defaults): fields not given are NULL,
\* created_at is auto_now_add
NewRow(id, m, defaults, t) ==
    [f \in {"id", "meeting", "drive_file_id", "drive_file_url", "duration_seconds",
            "recording_state", "recording_start_time", "recording_end_time",
            "available_at", "created_at"} |->
        CASE f = "id"         -> id
          [] f = "meeting"    -> m
          [] f = "created_at" -> t
          [] f \in DOMAIN defaults -> defaults[f]
          [] f = "drive_file_url"  -> NoUrl
          [] f = "recording_state" -> NULL
          [] OTHER -> None]

\* a save that stamps created_at again
UpdatedRowRestamped(r, defaults) ==
    [f \in DOMAIN r |->
        IF f \in DOMAIN defaults THEN defaults[f]
        ELSE IF f = "created_at" THEN now ELSE r[f]]

\* setattr(obj, k, v) for every default, then obj.save()
UpdatedRow(r, defaults) ==
    [f \in DOMAIN r |-> IF f \in DOMAIN defaults THEN defaults[f] ELSE r[f]]

----------------------------------------------------------------------------
(* Selection order of sync_all_recordings *)

\* annotate(has_conference_id=Case(When(conference_record_id__isnull=False, then=0), default=1))
HasConferenceId(mt) == IF mt.conference_record_id # NULL THEN 0 ELSE 1

\* ORDER BY scheduled_start DESC: a precedes b.  SQLite sorts NULL as the
\* smallest value (last under DESC); PostgreSQL sorts NULL as the largest
\* value (first under DESC).
ScheduledStartDescBefore(engine, a, b) ==
    CASE ~IsNone(a.scheduled_start) /\ ~IsNone(b.scheduled_start) ->
            Val(a.scheduled_start) > Val(b.scheduled_start)
      [] IsNone(a.scheduled_start) /\ ~IsNone(b.scheduled_start) ->
            engine = "postgresql"
      [] ~IsNone(a.scheduled_start) /\ IsNone(b.scheduled_start) ->
            engine = "sqlite3"
      [] OTHER -> FALSE

\* order_by('has_conference_id', '-scheduled_start', '-created_at'): a sorts
\* strictly before b
OrderBefore(engine, a, b) ==
    \/ HasConferenceId(a) < HasConferenceId(b)
    \/ /\ HasConferenceId(a) = HasConferenceId(b)
       /\ ScheduledStartDescBefore(engine, a, b)
    \/ /\ HasConferenceId(a) = HasConferenceId(b)
       /\ a.scheduled_start = b.scheduled_start
       /\ a.created_at > b.created_at

\* sequences over S without repetition that enumerate S
Perms(S) ==
    {s \in [1 .. Cardinality(S) -> S] : \A i, j \in DOMAIN s : i # j => s[i] # s[j]}

\* a selection that keeps the meetings that have a recording
BaseQuerysetAll(table, mtgs) ==
    {m \in DOMAIN mtgs : mtgs[m].meet_link # NullLink}

\* the base queryset: exclude(recording__isnull=False).filter(meet_link__isnull=False)
BaseQueryset(table, mtgs) ==
    {m \in DOMAIN mtgs : ~HasRecording(table, m) /\ mtgs[m].meet_link # NullLink}

\* a selection restricted to status FINISHED or SCHEDULED and to meetings
\* with scheduled_start, as the docstrings of the task and the endpoint say
OrderedQuerysetsDocumented(engine, table, mtgs) ==
    {s \in Perms({m \in BaseQueryset(table, mtgs) :
                     /\ mtgs[m].status \in {"FINISHED", "SCHEDULED"}
                     /\ ~IsNone(mtgs[m].scheduled_start)}) :
        \A i, j \in DOMAIN s : i < j => ~OrderBefore(engine, mtgs[s[j]], mtgs[s[i]])}

\* the orders in which the database may return the base queryset (rows that
\* compare equal on every key come in an order the database chooses)
OrderedQuerysets(engine, table, mtgs) ==
    {s \in Perms(BaseQueryset(table, mtgs)) :
        \A i, j \in DOMAIN s : i < j => ~OrderBefore(engine, mtgs[s[j]], mtgs[s[i]])}

\* a slice that is one element too long
ApplyLimitOneMore(s, limit) ==
    IF limit # 0 THEN SubSeq(s, 1, Min(limit + 1, Len(s))) ELSE s

\* if limit: queryset = queryset[:limit]
ApplyLimit(s, limit) ==
    IF limit # 0 THEN SubSeq(s, 1, Min(limit, Len(s))) ELSE s

----------------------------------------------------------------------------
(* Authoritative lookup: Conference Records API *)

\* GoogleMeetConferenceClient.list_recordings(only_ready=True) on the
\* recordings the API returns
ListRecordings(all_recordings) ==
    SelectSeq(all_recordings, LAMBDA r : r.state = "FILE_GENERATED")

\* key=lambda x: x.get('endTime', ''): the key is the RFC 3339 string, not
\* the instant, and strings compare character by character.  An absent
\* endTime, '', sorts below every string.  The API prints a time of whole
\* seconds without fraction ("...T10:01:02Z") and any other time with it
\* ("...T10:01:02.500Z").
EndTimeKey(r) == r.endTime

\* a > b of two keys, as Python compares strings: up to the seconds the
\* strings have one width; after them "Z" sorts above "." and above every
\* digit, so within one second the string without fraction sorts above every
\* string with one, and a string above each of its extensions
StrAbove(a, b) ==
    IF IsNone(a) THEN FALSE
    ELSE IF IsNone(b) THEN TRUE
    ELSE LET x == Val(a)
             y == Val(b)
             n == Min(x.digits, y.digits)
             px == x.frac \div Pow10(x.digits - n)
             py == y.frac \div Pow10(y.digits - n)
         IN  IF x.sec # y.sec THEN x.sec > y.sec
             ELSE IF n = 0 THEN x.digits = 0 /\ y.digits > 0
             ELSE IF px # py THEN px > py
             ELSE x.digits < y.digits

\* recordings.sort(key=endTime, reverse=True)[0]: the sort is stable, so of
\* the recordings with the largest key the one listed first comes first
RECURSIVE FirstWithLatestEnd(_, _, _)
FirstWithLatestEnd(recordings, i, best) ==
    IF i > Len(recordings) THEN best
    ELSE IF StrAbove(EndTimeKey(recordings[i]), EndTimeKey(recordings[best]))
         THEN FirstWithLatestEnd(recordings, i + 1, i)
         ELSE FirstWithLatestEnd(recordings, i + 1, best)

\* _find_recording_from_conference_record: resp is the outcome of the API
\* request, status "error" for a GoogleMeetError or any other exception
FindRecordingFromConferenceRecord(resp) ==
    IF resp.status # "ok" THEN None
    ELSE LET recordings == ListRecordings(resp.recordings)
         IN  IF recordings # << >>
             THEN Some(recordings[FirstWithLatestEnd(recordings, 1, 1)])
             ELSE None

----------------------------------------------------------------------------
(* Heuristic lookup: Google Drive *)

\* outcome of one Drive request: status "ok" with the files, or a failure:
\* "error" (network, 5xx), "quota" (403 quota) or "auth" (401)
Response(status, files) == [status |-> status, files |-> files]
IsFailure(resp) == resp.status # "ok"

\* a search that accepts the code anywhere in the name
SearchRecordingByMeetingCodeAnywhere(meeting_code, resp) ==
    IF IsFailure(resp) THEN [raised |-> TRUE, file |-> None]
    ELSE LET matching_files ==
                 SelectSeq(resp.files, LAMBDA f : Contains(f.name, meeting_code))
         IN  [raised |-> FALSE,
              file   |-> IF matching_files # << >>
                         THEN Some(matching_files[1]) ELSE None]

\* a search that returns the last match of the list
SearchRecordingByMeetingCodeLast(meeting_code, resp) ==
    IF IsFailure(resp) THEN [raised |-> TRUE, file |-> None]
    ELSE LET matching_files ==
                 SelectSeq(resp.files, LAMBDA f : StartsWith(f.name, meeting_code))
         IN  [raised |-> FALSE,
              file   |-> IF matching_files # << >>
                         THEN Some(matching_files[Len(matching_files)]) ELSE None]

\* GoogleDriveClient.search_recording_by_meeting_code: a file, None, or raise
SearchRecordingByMeetingCode(meeting_code, resp) ==
    IF IsFailure(resp) THEN [raised |-> TRUE, file |-> None]
    ELSE LET matching_files ==
                 SelectSeq(resp.files, LAMBDA f : StartsWith(f.name, meeting_code))
         IN  [raised |-> FALSE,
              file   |-> IF matching_files # << >>
                         THEN Some(matching_files[1]) ELSE None]

\* GoogleDriveClient.search_recording_by_event_id: only a quota failure is
\* raised, every other failure gives None
\* a search that raises GoogleDriveError on every failure, as the search by
\* meeting code does
SearchRecordingByEventIdRaising(resp) ==
    IF IsFailure(resp) THEN [raised |-> TRUE, file |-> None]
    ELSE [raised |-> FALSE,
          file   |-> IF resp.files # << >> THEN Some(resp.files[1]) ELSE None]

SearchRecordingByEventId(resp) ==
    IF resp.status = "quota" THEN [raised |-> TRUE, file |-> None]
    ELSE IF IsFailure(resp) THEN [raised |-> FALSE, file |-> None]
    ELSE [raised |-> FALSE,
          file   |-> IF resp.files # << >> THEN Some(resp.files[1]) ELSE None]

\* GoogleDriveClient.search_recordings_by_date_range
SearchRecordingsByDateRange(resp) ==
    IF IsFailure(resp) THEN [raised |-> TRUE, files |-> << >>]
    ELSE [raised |-> FALSE, files |-> resp.files]

\* str.lower() of one token
Lower(tok) ==
    CASE tok = "A" -> "a" [] tok = "B" -> "b" [] tok = "C" -> "c"
      [] tok = "D" -> "d" [] tok = "S" -> "s" [] tok = "W" -> "w"
      [] OTHER -> tok

LowerStr(s) == [i \in DOMAIN s |-> Lower(s[i])]

\* set(s.split()): the maximal runs of tokens without whitespace
WordSet(s) ==
    {SubSeq(s, p[1], p[2]) :
        p \in {q \in (1 .. Len(s)) \X (1 .. Len(s)) :
                 /\ q[1] <= q[2]
                 /\ \A k \in q[1] .. q[2] : s[k] # " "
                 /\ (q[1] = 1 \/ s[q[1] - 1] = " ")
                 /\ (q[2] = Len(s) \/ s[q[2] + 1] = " ")}}

\* score of one recording: len(event_words.intersection(recording_words))
Score(event_words, recording) ==
    Cardinality(event_words \cap WordSet(LowerStr(recording.name)))

\* a loop that lets a later recording with an equal score win
RECURSIVE BestMatchLatest(_, _, _, _, _)
BestMatchLatest(event_words, recordings, i, best_match, best_score) ==
    IF i > Len(recordings) THEN best_match
    ELSE IF Score(event_words, recordings[i]) >= best_score
            /\ Score(event_words, recordings[i]) > 0
         THEN BestMatchLatest(event_words, recordings, i + 1, i,
                              Score(event_words, recordings[i]))
         ELSE BestMatchLatest(event_words, recordings, i + 1, best_match, best_score)

\* the loop of _filter_recordings_by_meeting: index of the first recording
\* whose score exceeds every earlier score, 0 when every score is 0
RECURSIVE BestMatch(_, _, _, _, _)
BestMatch(event_words, recordings, i, best_match, best_score) ==
    IF i > Len(recordings) THEN best_match
    ELSE IF Score(event_words, recordings[i]) > best_score
         THEN BestMatch(event_words, recordings, i + 1, i,
                        Score(event_words, recordings[i]))
         ELSE BestMatch(event_words, recordings, i + 1, best_match, best_score)

\* _filter_recordings_by_meeting: cal is the outcome of get_event, with the
\* 'summary' of the event, or a failure when the calendar client or
\* get_event raises
FilterRecordingsByMeeting(recordings, cal) ==
    IF cal.status # "ok" THEN None
    ELSE LET event_title == LowerStr(cal.summary)
         IN  IF event_title = << >> THEN None
             ELSE LET b == BestMatch(WordSet(event_title), recordings, 1, 0, 0)
                  IN  IF b # 0 THEN Some(recordings[b]) ELSE None

\* a window taken from scheduled_start even when it lies in the future
SearchWindowFromStart(mt, t) ==
    IF ~IsNone(mt.scheduled_start)
    THEN <<Val(mt.scheduled_start) - 300,
           IF ~IsNone(mt.scheduled_end)
           THEN Val(mt.scheduled_end) + 900
           ELSE Val(mt.scheduled_start) + 7200>>
    ELSE <<mt.created_at - 3600, mt.created_at + 7200>>

\* the search window of the date strategy, in seconds
SearchWindow(mt, t) ==
    IF ~IsNone(mt.scheduled_start) /\ Val(mt.scheduled_start) <= t
    THEN <<Val(mt.scheduled_start) - 300,
           IF ~IsNone(mt.scheduled_end)
           THEN Val(mt.scheduled_end) + 900
           ELSE Val(mt.scheduled_start) + 7200>>
    ELSE <<mt.created_at - 3600, mt.created_at + 7200>>

\* the tail of _find_recording_in_drive once the date search returned files
PickFromDateRange(mt, recordings, cal) ==
    IF Len(recordings) > 1
    THEN LET meeting_code == MeetingCode(mt.meet_link)
             matching == SelectSeq(recordings,
                                   LAMBDA r : Contains(r.name, meeting_code))
         IN  IF mt.meet_link # << >> /\ matching # << >>
             THEN [file |-> Some(matching[1]), calls |-> << >>]
             ELSE LET filtered == FilterRecordingsByMeeting(recordings, cal)
                  IN  [file  |-> IF ~IsNone(filtered) THEN filtered
                                 ELSE Some(recordings[1]),
                       calls |-> <<"calendar">>]
    ELSE [file |-> Some(recordings[1]), calls |-> << >>]

\* a lookup result preceded by the requests made before it
After(calls, res) == [res EXCEPT !.calls = calls \o @]

NotFound(calls) == [file |-> None, calls |-> calls, window |-> None]

\* strategy 3 of _find_recording_in_drive
DateStrategy(mt, t, rDate, cal) ==
    LET r == SearchRecordingsByDateRange(rDate)
        w == Some(SearchWindow(mt, t))
    IN  IF r.raised \/ r.files = << >>
        THEN [file |-> None, calls |-> <<"date">>, window |-> w]
        ELSE LET pick == PickFromDateRange(mt, r.files, cal)
             IN  [file |-> pick.file, calls |-> <<"date">> \o pick.calls, window |-> w]

\* a search that never asks Drive for the event id
EventStrategySkipped(mt, t, rEvent, rDate, cal) == DateStrategy(mt, t, rDate, cal)

\* strategies 2 and 3 of _find_recording_in_drive
EventStrategy(mt, t, rEvent, rDate, cal) ==
    IF ~IsNone(mt.google_event_id)
    THEN LET r == SearchRecordingByEventId(rEvent)
         IN  IF r.raised THEN NotFound(<<"event">>)
             ELSE IF ~IsNone(r.file)
                  THEN [file |-> r.file, calls |-> <<"event">>, window |-> None]
                  ELSE After(<<"event">>, DateStrategy(mt, t, rDate, cal))
    ELSE DateStrategy(mt, t, rDate, cal)

\* _find_recording_in_drive: the file found (or None), the requests made, in
\* order, and the window searched, given the outcome of each request
FindRecordingInDrive(mt, t, rCode, rEvent, rDate, cal) ==
    LET meeting_code == MeetingCode(mt.meet_link)
    IN  IF mt.meet_link # << >> /\ Len(meeting_code) > 5
        THEN LET r == SearchRecordingByMeetingCode(meeting_code, rCode)
             IN  IF ~r.raised /\ ~IsNone(r.file)
                 THEN [file |-> r.file, calls |-> <<"code">>, window |-> None]
                 ELSE After(<<"code">>, EventStrategy(mt, t, rEvent, rDate, cal))
        ELSE EventStrategy(mt, t, rEvent, rDate, cal)

----------------------------------------------------------------------------
(* The inputs of the model: meetings, Drive files, answers of the services *)

CodeA == <<"a", "b", "c", "-", "d", "e", "f">>
LinkA == <<"https://", MeetHost>> \o CodeA
LinkShort == <<"https://", MeetHost, "t", "e", "s", "t">>

DriveFileIds == {"d1", "d2", "d3"}

FileD1 == [id |-> "d1", name |-> CodeA \o <<" ", "w", "k">>]
FileD2 == [id |-> "d2", name |-> <<"S", "y", "n", "c", " ", "w", "k">>]
FileD3 == [id |-> "d3", name |-> CodeA \o <<" ", "w", "k", " ", "s", "y", "n", "c">>]

\* a link whose meeting code is the tail "bc-def" of CodeA
LinkSuffix == <<"https://", MeetHost>> \o SubSeq(CodeA, 2, Len(CodeA))

RecA1 == [file |-> "a1", exportUri |-> <<"exportUri", "a1">>,
          state |-> "FILE_GENERATED",
          startTime |-> Some(Millis(1000)), endTime |-> Some(Millis(62999))]
RecA2 == [file |-> "a2", exportUri |-> <<"exportUri", "a2">>,
          state |-> "FILE_GENERATED",
          startTime |-> Some(Millis(2000)), endTime |-> Some(Millis(62999))]
RecStarted == [file |-> NULL, exportUri |-> NoUrl,
               state |-> "STARTED",
               startTime |-> Some(Millis(90000)), endTime |-> None]

\* what the services answer to the requests made for one meeting
Answers(conference, code, event, date, calendar) ==
    [conference |-> conference, code |-> code, event |-> event, date |-> date,
     calendar |-> calendar]

Recordings(status, recordings) == [status |-> status, recordings |-> recordings]
Event(status, summary) == [status |-> status, summary |-> summary]

TitleWk == <<"W", "k", " ", "s", "y", "n", "c">>

\* every service fails with a transient error
AllDown ==
    Answers(Recordings("error", << >>), Response("error", << >>),
            Response("error", << >>), Response("error", << >>), Event("error", << >>))

\* the API lists a finished recording, Drive holds the file under the meeting code
ApiAndDrive ==
    Answers(Recordings("ok", <<RecStarted, RecA1>>), Response("ok", <<FileD1>>),
            Response("ok", << >>), Response("ok", <<FileD1>>), Event("ok", TitleWk))

\* only the date search finds files
DateOnly ==
    Answers(Recordings("ok", << >>), Response("error", << >>),
            Response("ok", << >>), Response("ok", <<FileD2, FileD1>>), Event("ok", TitleWk))

\* Drive writes durationMillis, an int64, as a string
DurationMillis61999 == Raw("str", <<"6", "1", "9", "9", "9">>, 0)

\* metadata that files().get may serve for a file
MetadataSet ==
    [webViewLink : BOOLEAN, durationMillis : {Absent, DurationMillis61999},
     createdTime : {None, Some(Stamp(7, 3, 0))}]

MainDrive ==
    [f \in DriveFileIds |->
        IF f = "d1"
        THEN [webViewLink |-> TRUE, durationMillis |-> DurationMillis61999,
              createdTime |-> Some(Stamp(7, 3, 0))]
        ELSE [webViewLink |-> FALSE, durationMillis |-> Absent,
              createdTime |-> Some(Stamp(9, 3, 0))]]

\* the meetings of the concurrent specification, each with its answers
MainScenarios ==
    {[meeting |-> MeetingRow("cr1", Some(1), LinkA, Some(0), None, 0, "SCHEDULED"),
      answers |-> ApiAndDrive],
     [meeting |-> MeetingRow(NULL, Some(1), LinkA, None, None, 0, "CREATED"),
      answers |-> DateOnly],
     [meeting |-> MeetingRow("cr1", Some(1), LinkA, Some(0), Some(1), 0, "FINISHED"),
      answers |-> AllDown]}

----------------------------------------------------------------------------
(* Requests to the endpoints that enqueue the tasks *)

\* a request, the status of its response and the arguments of the tasks
\* that it enqueued
Exchange(endpoint, pk, query, data, status, sent) ==
    [endpoint |-> endpoint, pk |-> pk, query |-> query, data |-> data,
     status |-> status, sent |-> sent]

NoExchange == Exchange("none", 0, Absent, Absent, 0, << >>)

----------------------------------------------------------------------------
(* State *)

NoResult == [kind |-> "none"]

ZeroStats == [processed |-> 0, found |-> 0, created |-> 0, updated |-> 0, errors |-> 0]

NoCur == [meeting |-> 0, src |-> "none", cand |-> None, defaults |-> None, ret |-> None,
          window |-> None, failed |-> FALSE]

NoBatch == [queryset |-> << >>, meetings |-> << >>, idx |-> 0, stats |-> ZeroStats,
            hadRecording |-> {}, failed |-> {}]

InitHist(ids) ==
    [enqueued  |-> [w \in Workers |-> 0],       \* tasks enqueued so far
     runs      |-> [w \in Workers |-> 0],       \* executions of the body of the task
     lastError |-> [w \in Workers |-> "none"],  \* class of the exception just handled
     lookup    |-> [w \in Workers |-> "none"],  \* "raised": every request of the task
                                                \* so far failed with a transient error
     calls     |-> [w \in Workers |-> << >>],   \* requests of the current reconciliation
     apiFound  |-> [w \in Workers |-> FALSE],   \* the authoritative lookup gave a candidate
     lookedUp  |-> [w \in Workers |-> {}],      \* meetings looked up by the task
     order     |-> << >>,                       \* meetings processed by the batch, in order
     commits   |-> [m \in ids |-> << >>],       \* committed upserts per meeting
     lastWrite |-> [m \in ids |-> None],        \* defaults of the last committed upsert
     http      |-> NoExchange]                  \* the last request and its response

\* a row that an earlier reconciliation left for meeting m
EarlierRow(m) == NewRow(m, m, DriveDefaults("d2", MainDrive["d2"], "3.11"), 0)

\* the state after deployment: the Meeting table and the services as one of
\* Worlds describes them, a MeetingRecording row for the meetings of one of
\* the sets in Existing, no task enqueued
InitWith(Worlds, DriveChoices, Engines, Existing) ==
    /\ dbEngine \in Engines
    /\ \E sc \in Worlds :
          /\ meetings = [m \in DOMAIN sc |->
                 [sc[m].meeting EXCEPT
                     !.google_event_id = IF IsNone(@) THEN None ELSE Some(m)]]
          /\ world = [m \in DOMAIN sc |-> sc[m].answers]
          /\ \E have \in Existing :
                /\ have \subseteq DOMAIN sc
                /\ rows = {EarlierRow(m) : m \in have}
          /\ nextId = Cardinality(DOMAIN sc) + 1
          /\ hist = InitHist(DOMAIN sc)
    /\ drive \in DriveChoices
    /\ now = 0
    /\ task = [w \in Workers |->
                  [state |-> "IDLE", retries |-> 0, arg |-> 0, result |-> NoResult]]
    /\ pc = [w \in Workers |-> "idle"]
    /\ svc = [w \in Workers |-> [conference_client |-> FALSE]]
    /\ cur = [w \in Workers |-> NoCur]
    /\ batch = NoBatch

Init == InitWith([1 .. RaceMeetings -> MainScenarios], {MainDrive}, {"sqlite3"}, {{}})

----------------------------------------------------------------------------
(* Celery task wrapper *)

MaxRetries(w) == IF w = "s" THEN SingleMaxRetries ELSE BatchMaxRetries

\* the dictionary returned by the except branch of a task
ErrorResult(w) ==
    IF w = "s"
    THEN [success |-> FALSE, recording_found |-> FALSE, recording_id |-> 0,
          drive_file_id |-> NULL, error |-> TRUE]
    ELSE [success |-> FALSE, stats |-> ZeroStats, error |-> TRUE]

\* a wrapper that also retries when retries has reached max_retries
ShouldRetryInclusive(retries, max_retries) == retries <= max_retries

\* if self.request.retries < self.max_retries
ShouldRetry(retries, max_retries) == retries < max_retries

\* the except branch of both tasks: raise self.retry(...) while retries
\* remain, else return the error dictionary
HandleException(w, class) ==
    /\ task' = [task EXCEPT ![w] =
                  IF ShouldRetry(task[w].retries, MaxRetries(w))
                  THEN [@ EXCEPT !.state = "RETRYING", !.retries = @ + 1]
                  ELSE [@ EXCEPT !.state = "FAILED", !.result = ErrorResult(w)]]
    /\ pc' = [pc EXCEPT ![w] = "idle"]
    /\ hist' = [hist EXCEPT !.lastError[w] = class]

\* the history of a task that has just been enqueued
Enqueued(w) ==
    [hist EXCEPT !.enqueued[w] = @ + 1, !.runs[w] = 0, !.lastError[w] = "none",
                 !.lookup[w] = "none", !.lookedUp[w] = {},
                 !.order = IF w = "b" THEN << >> ELSE @]

\* sync_meeting_recording_task.delay(meeting_id)
EnqueueSingle ==
    /\ task["s"].state \in {"IDLE", "SUCCESS", "FAILED"}
    /\ hist.enqueued["s"] < MaxEnqueue
    /\ \E id \in DOMAIN meetings \cup {MissingMeetingId} :
          task' = [task EXCEPT !["s"] =
                      [state |-> "PENDING", retries |-> 0, arg |-> id, result |-> NoResult]]
    /\ hist' = Enqueued("s")
    /\ UNCHANGED <<dbEngine, meetings, world, drive, rows, nextId, now, pc, svc, cur, batch>>

\* sync_all_recordings_task.delay(limit=limit); limit 0 stands for None
EnqueueBatch ==
    /\ task["b"].state \in {"IDLE", "SUCCESS", "FAILED"}
    /\ hist.enqueued["b"] < MaxEnqueue
    /\ \E limit \in 0 .. Cardinality(DOMAIN meetings) :
          task' = [task EXCEPT !["b"] =
                      [state |-> "PENDING", retries |-> 0, arg |-> limit, result |-> NoResult]]
    /\ hist' = Enqueued("b")
    /\ UNCHANGED <<dbEngine, meetings, world, drive, rows, nextId, now, pc, svc, cur, batch>>

\* a worker picks the task up, for the first time or after a retry
StartTask(w) ==
    /\ task[w].state \in {"PENDING", "RETRYING"}
    /\ task' = [task EXCEPT ![w].state = "RUNNING"]
    /\ pc' = [pc EXCEPT ![w] = "body"]
    /\ hist' = [hist EXCEPT !.runs[w] = @ + 1, !.lastError[w] = "none"]
    /\ UNCHANGED <<dbEngine, meetings, world, drive, rows, nextId, now, svc, cur, batch>>

\* sync_meeting_recording_task up to the call of sync_meeting_recording:
\* Meeting.objects.get and RecordingSyncService()
SingleBody ==
    /\ pc["s"] = "body"
    /\ \E outcome \in {"ok", "db_error", "auth_error"}, cc \in BOOLEAN :
          CASE outcome = "db_error" ->
                  \* OperationalError of the database connection
                  /\ HandleException("s", "transient")
                  /\ UNCHANGED <<svc, cur>>
            [] outcome # "db_error" /\ task["s"].arg \notin DOMAIN meetings ->
                  \* ObjectDoesNotExist
                  /\ task' = [task EXCEPT !["s"].state = "FAILED",
                                          !["s"].result = ErrorResult("s")]
                  /\ pc' = [pc EXCEPT !["s"] = "idle"]
                  /\ UNCHANGED <<svc, cur, hist>>
            [] outcome = "auth_error" /\ task["s"].arg \in DOMAIN meetings ->
                  \* GoogleAuthenticationError of GoogleDriveClient()
                  /\ HandleException("s", "permanent")
                  /\ UNCHANGED <<svc, cur>>
            [] OTHER ->
                  /\ svc' = [svc EXCEPT !["s"] = [conference_client |-> cc]]
                  /\ cur' = [cur EXCEPT !["s"] = [NoCur EXCEPT !.meeting = task["s"].arg]]
                  /\ pc' = [pc EXCEPT !["s"] = "check"]
                  /\ UNCHANGED <<task, hist>>
    /\ UNCHANGED <<dbEngine, meetings, world, drive, rows, nextId, now, batch>>

----------------------------------------------------------------------------
(* RecordingSyncService.sync_meeting_recording, one action per step that    *)
(* reads or writes the database or waits for an external service           *)

\* sync_meeting_recording returns ret to its caller
Return(w, ret) == [cur EXCEPT ![w].ret = ret]

\* an except branch of sync_meeting_recording returns None after a
\* persistence failure
ReturnAfterFailure(w) == [cur EXCEPT ![w].ret = None, ![w].failed = TRUE]

\* one of the requests failed with quota-exceeded or an authentication error
HitQuotaOrAuth(statuses) == statuses \cap {"quota", "auth"} # {}

\* the lookup history of a task after requests with the given outcomes
Looked(old, statuses) ==
    IF statuses = {} THEN old
    ELSE IF statuses = {"error"} /\ old \in {"none", "raised"} THEN "raised"
    ELSE "answered"

\* if hasattr(meeting, 'recording'): return meeting.recording;
\* else choose the first strategy
CheckExisting(w) ==
    /\ pc[w] = "check"
    /\ LET m == cur[w].meeting
       IN  IF HasRecording(rows, m)
           THEN /\ cur' = Return(w, Some(TheRow(rows, m)))
                /\ pc' = [pc EXCEPT ![w] = "return"]
           ELSE /\ cur' = cur
                /\ pc' = [pc EXCEPT ![w] =
                             IF meetings[m].conference_record_id # NULL
                                /\ svc[w].conference_client
                             THEN "conference" ELSE "drive"]
    /\ hist' = [hist EXCEPT !.calls[w] = << >>, !.apiFound[w] = FALSE]
    /\ UNCHANGED <<dbEngine, meetings, world, drive, rows, nextId, now, task, svc, batch>>

\* a service that goes on to the Drive search whatever the API returned
AfterConferenceFallThrough(w, recording_data) ==
    /\ cur' = cur
    /\ pc' = [pc EXCEPT ![w] = "drive"]

\* after the authoritative lookup: a candidate goes to the Reconciler,
\* nothing found falls through to the Drive search
AfterConference(w, recording_data) ==
    IF ~IsNone(recording_data)
    THEN /\ cur' = [cur EXCEPT ![w].src = "api", ![w].cand = recording_data]
         /\ pc' = [pc EXCEPT ![w] = "upsert"]
    ELSE /\ cur' = cur
         /\ pc' = [pc EXCEPT ![w] = "drive"]

\* strategy 1: _find_recording_from_conference_record
ConferenceLookup(w) ==
    /\ pc[w] = "conference"
    /\ LET resp == world[cur[w].meeting].conference
           recording_data == FindRecordingFromConferenceRecord(resp)
       IN  /\ AfterConference(w, recording_data)
           /\ hist' = [hist EXCEPT
                 !.calls[w] = Append(@, "conference"),
                 !.apiFound[w] = ~IsNone(recording_data),
                 !.lookedUp[w] = @ \cup {cur[w].meeting},
                 !.lookup[w] = Looked(@, {resp.status})]
    /\ UNCHANGED <<dbEngine, meetings, world, drive, rows, nextId, now, task, svc, batch>>

\* the outcome of the request that a call name stands for
StatusOf(call, answers) ==
    CASE call = "code"  -> answers.code.status
      [] call = "event" -> answers.event.status
      [] call = "date"  -> answers.date.status
      [] OTHER          -> answers.calendar.status

\* strategy 2: _find_recording_in_drive; not found ends the reconciliation
DriveLookup(w) ==
    /\ pc[w] = "drive"
    /\ LET a == world[cur[w].meeting]
           res == FindRecordingInDrive(meetings[cur[w].meeting], now,
                                       a.code, a.event, a.date, a.calendar)
           statuses == {StatusOf(res.calls[i], a) : i \in DOMAIN res.calls}
       IN  /\ IF ~IsNone(res.file)
              THEN /\ cur' = [cur EXCEPT ![w].src = "drive", ![w].cand = res.file,
                                         ![w].window = res.window,
                                         ![w].failed = HitQuotaOrAuth(statuses)]
                   /\ pc' = [pc EXCEPT ![w] = "upsert"]
              ELSE /\ cur' = [cur EXCEPT ![w].ret = None, ![w].window = res.window,
                                         ![w].failed = HitQuotaOrAuth(statuses)]
                   /\ pc' = [pc EXCEPT ![w] = "return"]
           /\ hist' = [hist EXCEPT
                 !.calls[w] = @ \o res.calls,
                 !.lookedUp[w] = @ \cup {cur[w].meeting},
                 !.lookup[w] = Looked(@, statuses)]
    /\ UNCHANGED <<dbEngine, meetings, world, drive, rows, nextId, now, task, svc, batch>>

\* PositiveIntegerField: the CHECK constraint on duration_seconds
DurationAccepted(defaults) ==
    IsNone(defaults.duration_seconds) \/ Val(defaults.duration_seconds) >= 0

\* the row of meeting m is overwritten with the defaults and saved
SavedRows(table, m, defaults) ==
    (table \ {TheRow(table, m)}) \cup {UpdatedRow(TheRow(table, m), defaults)}

\* update_or_create finds the row: it is locked, updated and saved
UpdateExisting(w, m, defaults, how, h) ==
    /\ rows' = SavedRows(rows, m, defaults)
    /\ cur' = Return(w, Some(UpdatedRow(TheRow(rows, m), defaults)))
    /\ pc' = [pc EXCEPT ![w] = "return"]
    /\ hist' = [h EXCEPT !.commits[m] = Append(@, <<w, how>>),
                         !.lastWrite[m] = Some(defaults)]

\* _create_or_update_recording_from_api / _from_drive up to the SELECT of
\* update_or_create: an existing row is updated and returned, a missing row
\* sends the call on to the INSERT.  Every exception leaves
\* sync_meeting_recording through its except branches, which return None.
Upsert(w) ==
    /\ pc[w] = "upsert"
    /\ \E outcome \in {"ok", "metadata_error", "db_error"}, python \in Pythons :
          LET m == cur[w].meeting
              cand == Val(cur[w].cand)
              defaults == IF cur[w].src = "api" THEN ApiDefaults(cand, python)
                          ELSE DriveDefaults(cand.id, drive[cand.id], python)
              requested == [hist EXCEPT !.calls[w] =
                               IF cur[w].src = "drive" THEN Append(@, "metadata") ELSE @]
              failNone == /\ cur' = ReturnAfterFailure(w)
                          /\ pc' = [pc EXCEPT ![w] = "return"]
                          /\ rows' = rows
              returnNone == /\ cur' = Return(w, None)
                            /\ pc' = [pc EXCEPT ![w] = "return"]
                            /\ rows' = rows
          IN  IF cur[w].src = "api" /\ cand.file = NULL
              THEN \* if not file_id: return None
                   returnNone /\ hist' = hist
              ELSE IF cur[w].src = "drive" /\ outcome = "metadata_error"
              THEN \* get_file_metadata raises
                   returnNone /\ hist' = requested
              ELSE IF outcome = "db_error" \/ ~DurationAccepted(defaults)
              THEN \* the database raises
                   failNone /\ hist' = requested
              ELSE IF HasRecording(rows, m)
              THEN UpdateExisting(w, m, defaults, "updated", requested)
              ELSE /\ cur' = [cur EXCEPT ![w].defaults = Some(defaults)]
                   /\ pc' = [pc EXCEPT ![w] = "create"]
                   /\ rows' = rows
                   /\ hist' = requested
    /\ UNCHANGED <<dbEngine, meetings, world, drive, nextId, now, task, svc, batch>>

\* a table without the unique constraint
NoUniqueConstraint(table, m) == FALSE

\* the unique constraint of the OneToOneField rejects a second row
UniqueViolation(table, m) == HasRecording(table, m)

\* an INSERT whose database error leaves sync_meeting_recording as an
\* exception and reaches the except branch of the task
UpsertCreateRaising(w) ==
    /\ pc[w] = "create"
    /\ LET m == cur[w].meeting
           defaults == Val(cur[w].defaults)
       IN  \E outcome \in {"ok", "db_error"} :
              IF outcome = "db_error"
              THEN /\ HandleException(w, "transient")
                   /\ cur' = [cur EXCEPT ![w] = NoCur]
                   /\ UNCHANGED <<rows, nextId>>
              ELSE IF UniqueViolation(rows, m)
              THEN /\ UpdateExisting(w, m, defaults, "updated_after_conflict", hist)
                   /\ UNCHANGED <<nextId, task>>
              ELSE /\ rows' = rows \cup {NewRow(nextId, m, defaults, now)}
                   /\ nextId' = nextId + 1
                   /\ cur' = Return(w, Some(NewRow(nextId, m, defaults, now)))
                   /\ pc' = [pc EXCEPT ![w] = "return"]
                   /\ hist' = [hist EXCEPT !.commits[m] = Append(@, <<w, "created">>),
                                           !.lastWrite[m] = Some(defaults)]
                   /\ UNCHANGED task
    /\ UNCHANGED <<dbEngine, meetings, world, drive, now, svc, batch>>

\* the INSERT of update_or_create: on IntegrityError the row that won the
\* race is fetched and updated
UpsertCreate(w) ==
    /\ pc[w] = "create"
    /\ LET m == cur[w].meeting
           defaults == Val(cur[w].defaults)
       IN  \E outcome \in {"ok", "db_error"} :
              IF outcome = "db_error"
              THEN /\ cur' = ReturnAfterFailure(w)
                   /\ pc' = [pc EXCEPT ![w] = "return"]
                   /\ UNCHANGED <<rows, nextId, hist>>
              ELSE IF UniqueViolation(rows, m)
              THEN /\ UpdateExisting(w, m, defaults, "updated_after_conflict", hist)
                   /\ UNCHANGED nextId
              ELSE /\ rows' = rows \cup {NewRow(nextId, m, defaults, now)}
                   /\ nextId' = nextId + 1
                   /\ cur' = Return(w, Some(NewRow(nextId, m, defaults, now)))
                   /\ pc' = [pc EXCEPT ![w] = "return"]
                   /\ hist' = [hist EXCEPT !.commits[m] = Append(@, <<w, "created">>),
                                           !.lastWrite[m] = Some(defaults)]
    /\ UNCHANGED <<dbEngine, meetings, world, drive, now, task, svc, batch>>

----------------------------------------------------------------------------
(* The callers of sync_meeting_recording *)

\* the history once a reconciliation has returned
Returned(w) == [hist EXCEPT !.calls[w] = << >>, !.apiFound[w] = FALSE]

\* sync_meeting_recording_task after the service returned
ReturnSingle ==
    /\ pc["s"] = "return"
    /\ LET recording == cur["s"].ret
       IN  task' = [task EXCEPT !["s"].state = "SUCCESS", !["s"].result =
                IF ~IsNone(recording)
                THEN [success |-> TRUE, recording_found |-> TRUE,
                      recording_id |-> Val(recording).id,
                      drive_file_id |-> Val(recording).drive_file_id, error |-> FALSE]
                ELSE [success |-> TRUE, recording_found |-> FALSE, recording_id |-> 0,
                      drive_file_id |-> NULL, error |-> FALSE]]
    /\ pc' = [pc EXCEPT !["s"] = "idle"]
    /\ cur' = [cur EXCEPT !["s"] = NoCur]
    /\ hist' = Returned("s")
    /\ UNCHANGED <<dbEngine, meetings, world, drive, rows, nextId, now, svc, batch>>

\* sync_all_recordings_task and sync_all_recordings up to the loop:
\* RecordingSyncService(), the selection query, the limit
BatchSelect ==
    /\ pc["b"] = "body"
    /\ \E outcome \in {"ok", "db_error", "auth_error"}, cc \in BOOLEAN :
          CASE outcome = "auth_error" ->
                  /\ HandleException("b", "permanent")
                  /\ UNCHANGED <<svc, batch>>
            [] outcome = "db_error" ->
                  \* the query raises, sync_all_recordings re-raises
                  /\ HandleException("b", "transient")
                  /\ UNCHANGED <<svc, batch>>
            [] OTHER ->
                  \E queryset \in OrderedQuerysets(dbEngine, rows, meetings) :
                     /\ svc' = [svc EXCEPT !["b"] = [conference_client |-> cc]]
                     /\ batch' = [queryset |-> queryset,
                                  meetings |-> ApplyLimit(queryset, task["b"].arg),
                                  idx |-> 1, stats |-> ZeroStats,
                                  hadRecording |->
                                      {m \in DOMAIN meetings : HasRecording(rows, m)},
                                  failed |-> {}]
                     /\ pc' = [pc EXCEPT !["b"] = "loop"]
                     /\ UNCHANGED <<task, hist>>
    /\ UNCHANGED <<dbEngine, meetings, world, drive, rows, nextId, now, cur>>

\* a loop that ends at the first meeting whose reconciliation failed
LoopFinishedAtFailure(b) == b.idx > Len(b.meetings) \/ b.failed # {}

\* a loop that leaves out the last meeting
LoopFinishedEarly(b) == b.idx >= Len(b.meetings)

\* for meeting in meetings: no meeting is left
LoopFinished(b) == b.idx > Len(b.meetings)

\* for meeting in meetings: stats['processed'] += 1, then the call of
\* sync_meeting_recording; after the last meeting the statistics are returned
BatchLoop ==
    /\ pc["b"] = "loop"
    /\ IF LoopFinished(batch)
       THEN /\ task' = [task EXCEPT !["b"].state = "SUCCESS", !["b"].result =
                          [success |-> TRUE, stats |-> batch.stats, error |-> FALSE]]
            /\ pc' = [pc EXCEPT !["b"] = "idle"]
            /\ UNCHANGED <<cur, batch, hist>>
       ELSE /\ batch' = [batch EXCEPT !.stats.processed = @ + 1]
            /\ cur' = [cur EXCEPT !["b"] =
                          [NoCur EXCEPT !.meeting = batch.meetings[batch.idx]]]
            /\ pc' = [pc EXCEPT !["b"] = "check"]
            /\ hist' = [hist EXCEPT !.order = Append(@, batch.meetings[batch.idx])]
            /\ UNCHANGED task
    /\ UNCHANGED <<dbEngine, meetings, world, drive, rows, nextId, now, svc>>

\* abs((recording.created_at - meeting.created_at).total_seconds()) < 1
CountsAsCreated(recording, mt) == Abs(recording.created_at - mt.created_at) < 1

\* statistics that count a recording of an old meeting as found only
AccountFoundOnly(stats, recording, mt) ==
    IF ~IsNone(recording)
    THEN IF CountsAsCreated(Val(recording), mt)
         THEN [stats EXCEPT !.found = @ + 1, !.created = @ + 1]
         ELSE [stats EXCEPT !.found = @ + 1]
    ELSE stats

\* the statistics after sync_meeting_recording returned recording
Account(stats, recording, mt) ==
    IF ~IsNone(recording)
    THEN IF CountsAsCreated(Val(recording), mt)
         THEN [stats EXCEPT !.found = @ + 1, !.created = @ + 1]
         ELSE [stats EXCEPT !.found = @ + 1, !.updated = @ + 1]
    ELSE stats

\* the rest of the loop body of sync_all_recordings
BatchAccount ==
    /\ pc["b"] = "return"
    /\ batch' = [batch EXCEPT
           !.stats = Account(@, cur["b"].ret, meetings[cur["b"].meeting]),
           !.failed = IF cur["b"].failed THEN @ \cup {cur["b"].meeting} ELSE @,
           !.idx = @ + 1]
    /\ cur' = [cur EXCEPT !["b"] = NoCur]
    /\ pc' = [pc EXCEPT !["b"] = "loop"]
    /\ hist' = Returned("b")
    /\ UNCHANGED <<dbEngine, meetings, world, drive, rows, nextId, now, task, svc>>

\* a destroy that deletes the meeting: the row of its recording goes with it
\* (on_delete=CASCADE)
DestroyCascading ==
    \E m \in DOMAIN meetings :
       /\ meetings[m].status # "CANCELLED"
       /\ meetings' = [meetings EXCEPT ![m].status = "CANCELLED"]
       /\ rows' = rows \ RowsOf(rows, m)
       /\ UNCHANGED <<dbEngine, world, drive, nextId, now, task, pc, svc, cur, batch, hist>>

\* MeetingViewSet.destroy: the meeting is cancelled, not deleted (cancelling a
\* cancelled meeting changes nothing)
Destroy ==
    \E m \in DOMAIN meetings :
       /\ meetings[m].status # "CANCELLED"
       /\ meetings' = [meetings EXCEPT ![m].status = "CANCELLED"]
       /\ UNCHANGED <<dbEngine, world, drive, rows, nextId, now, task, pc, svc, cur, batch,
                      hist>>

\* time passes
Tick ==
    /\ now < MaxNow
    /\ now' = now + 1
    /\ UNCHANGED <<dbEngine, meetings, world, drive, rows, nextId, task, pc, svc, cur,
                   batch, hist>>

----------------------------------------------------------------------------
(* The concurrent system: one worker per task, any interleaving *)

Next ==
    \/ EnqueueSingle
    \/ EnqueueBatch
    \/ \E w \in Workers : StartTask(w)
    \/ SingleBody
    \/ BatchSelect
    \/ BatchLoop
    \/ \E w \in Workers : CheckExisting(w)
    \/ \E w \in Workers : ConferenceLookup(w)
    \/ \E w \in Workers : DriveLookup(w)
    \/ \E w \in Workers : Upsert(w)
    \/ \E w \in Workers : UpsertCreate(w)
    \/ ReturnSingle
    \/ BatchAccount
    \/ Destroy
    \/ Tick

Spec == Init /\ [][Next]_vars

----------------------------------------------------------------------------
(* Properties of the concurrent system *)

\* C1: in every reachable state each meeting has at most one MeetingRecording
\* row, whatever single syncs, batch runs and retries have happened
AtMostOneRecordingPerMeeting ==
    \A m \in DOMAIN meetings : Cardinality(RowsOf(rows, m)) <= 1

\* C1 witness: a second reconciliation of a meeting found the row of the
\* first one and updated it
SecondReconciliationUpdated ==
    \E m \in DOMAIN meetings :
        /\ Len(hist.commits[m]) = 2
        /\ hist.commits[m][1][2] = "created"
        /\ hist.commits[m][2][2] = "updated"
        /\ Cardinality(RowsOf(rows, m)) = 1

\* C3: once reconciliations of a meeting have committed, concurrently or
\* not, the meeting has exactly one row and the fields of that row are those
\* written by the upsert that committed last: the row is what that upsert
\* alone leaves behind
LastWriteWins ==
    \A m \in DOMAIN meetings :
        hist.commits[m] # << >> =>
            /\ Cardinality(RowsOf(rows, m)) = 1
            /\ TheRow(rows, m) = NewRow(TheRow(rows, m).id, m, Val(hist.lastWrite[m]),
                                        TheRow(rows, m).created_at)

\* C4: a single-meeting task whose every lookup request failed with a
\* transient error never ends with a success result
TransientLookupFailureNeverSucceeds ==
    task["s"].state = "SUCCESS" => hist.lookup["s"] # "raised"

\* C5, as stated: the body of the single-meeting task runs at most 3 times
\* and the body of the batch task at most 2 times
AttemptCapAsStated ==
    /\ hist.runs["s"] <= 3
    /\ hist.runs["b"] <= 2

\* C5: the body of a task runs at most max_retries + 1 times (4 for the
\* single-meeting task, 3 for the batch task), and the failure result of the
\* except branch is produced by the last of these runs
AttemptCap ==
    \A w \in Workers :
        /\ hist.runs[w] <= MaxRetries(w) + 1
        /\ (task[w].state = "FAILED" /\ hist.lastError[w] # "none")
              => hist.runs[w] = MaxRetries(w) + 1

\* C5 witness: both tasks raised on every run and produced the failure result
BothTasksExhausted ==
    /\ task["s"].state = "FAILED" /\ hist.lastError["s"] # "none"
    /\ hist.runs["s"] = 4
    /\ task["b"].state = "FAILED" /\ hist.lastError["b"] # "none"
    /\ hist.runs["b"] = 3

\* C6: a task moves to RETRYING only after a transient error
OnlyTransientErrorsRetry ==
    \A w \in Workers : task[w].state = "RETRYING" => hist.lastError[w] = "transient"

\* the requests of the heuristic search
HeuristicCalls == {"code", "event", "date"}

\* C10: in a reconciliation whose authoritative lookup returned a
\* FILE_GENERATED recording no request of the heuristic search is made
ShortCircuitAfterApi ==
    \A w \in Workers :
        hist.apiFound[w] =>
            \A i \in DOMAIN hist.calls[w] : hist.calls[w][i] \notin HeuristicCalls

\* C10 witness: a reconciliation returned the recording of the API
ApiRecordingReturned ==
    \E w \in Workers :
        /\ hist.apiFound[w]
        /\ pc[w] = "return"
        /\ ~IsNone(cur[w].ret)
        /\ Val(cur[w].cand).state = "FILE_GENERATED"
        /\ Val(cur[w].ret).drive_file_id = "a1"
        /\ hist.calls[w] = <<"conference">>

----------------------------------------------------------------------------
(* The batch run alone, over a larger Meeting table *)

\* M1: conference-record id, scheduled yesterday
MeetingM1 ==
    [meeting |-> MeetingRow("cr1", Some(1), LinkA, Some(0), None, 0, "FINISHED"),
     answers |-> ApiAndDrive]

\* M2: no conference-record id, scheduled today
MeetingM2 ==
    [meeting |-> MeetingRow(NULL, Some(1), LinkA, Some(1), None, 0, "SCHEDULED"),
     answers |-> DateOnly]

\* M3: no conference-record id, no scheduled start
MeetingM3 ==
    [meeting |-> MeetingRow(NULL, None, LinkA, None, None, 0, "CREATED"),
     answers |-> AllDown]

\* M4: conference-record id, no scheduled start
MeetingM4 ==
    [meeting |-> MeetingRow("cr4", Some(1), LinkShort, None, None, 0, "CANCELLED"),
     answers |-> ApiAndDrive]

\* the Meeting tables of the batch specification: consecutive meetings of
\* the cycle M1, M2, M3, M4, M3
BatchShape == <<MeetingM1, MeetingM2, MeetingM3, MeetingM4, MeetingM3>>

BatchWorlds ==
    {[m \in 1 .. BatchMeetings |-> BatchShape[((m - 1 + k) % Len(BatchShape)) + 1]] :
        k \in 0 .. Len(BatchShape) - 1}

InitBatch ==
    InitWith(BatchWorlds, {MainDrive}, {"sqlite3", "postgresql"},
             SUBSET (1 .. BatchMeetings))

NextBatch ==
    \/ EnqueueBatch
    \/ StartTask("b")
    \/ BatchSelect
    \/ BatchLoop
    \/ CheckExisting("b")
    \/ ConferenceLookup("b")
    \/ DriveLookup("b")
    \/ Upsert("b")
    \/ UpsertCreate("b")
    \/ BatchAccount
    \/ Tick

SpecBatch == InitBatch /\ [][NextBatch]_vars

\* the running or finished batch task has made its selection
BatchSelected ==
    /\ task["b"].state \in {"RUNNING", "SUCCESS"}
    /\ pc["b"] # "body"

\* a sorts strictly before b in the order the batch run is meant to follow:
\* conference-record id first, then the more recent scheduled start, a
\* missing scheduled start last
PriorityBefore(a, b) ==
    \/ HasConferenceId(a) < HasConferenceId(b)
    \/ /\ HasConferenceId(a) = HasConferenceId(b)
       /\ \/ ~IsNone(a.scheduled_start) /\ IsNone(b.scheduled_start)
          \/ /\ ~IsNone(a.scheduled_start) /\ ~IsNone(b.scheduled_start)
             /\ Val(a.scheduled_start) > Val(b.scheduled_start)

\* C7: a batch run processes meetings with a conference-record id first,
\* within each group the more recent scheduled start first, and meetings
\* without a scheduled start after those with one
BatchPriorityOrder ==
    \A i, j \in DOMAIN hist.order :
        i < j => ~PriorityBefore(meetings[hist.order[j]], meetings[hist.order[i]])

BatchLimit ==
    LET L == task["b"].arg
        n == Len(batch.queryset)
        first == {batch.queryset[i] : i \in 1 .. Min(L, n)}
    IN  (BatchSelected /\ L > 0) =>
            /\ batch.stats.processed <= L
            /\ Len(hist.order) <= Min(L, n)
            /\ \A i \in DOMAIN hist.order : hist.order[i] = batch.queryset[i]
            /\ hist.lookedUp["b"] \subseteq first
            /\ task["b"].state = "SUCCESS" =>
                  /\ task["b"].result.stats.processed = Min(L, n)
                  /\ Len(hist.order) = Min(L, n)

\* C9 witness: a run whose limit is smaller than the selection finished
LimitTruncated ==
    /\ task["b"].state = "SUCCESS"
    /\ task["b"].arg >= 1
    /\ task["b"].arg < Len(batch.queryset)
    /\ task["b"].result.stats.processed = task["b"].arg
    /\ hist.lookedUp["b"] # {}

----------------------------------------------------------------------------
(* The Reconciler alone: _create_or_update_recording_from_api and          *)
(* _create_or_update_recording_from_drive called repeatedly with one       *)
(* candidate                                                               *)

\* a finished recording of the API whose driveDestination has no file
RecNoFile == [RecA1 EXCEPT !.file = NULL]

\* the candidates a lookup may hand to the Reconciler
Candidates ==
    {[src |-> "api", cand |-> RecA1], [src |-> "api", cand |-> RecA2],
     [src |-> "api", cand |-> RecNoFile],
     [src |-> "drive", cand |-> FileD1], [src |-> "drive", cand |-> FileD2]}

InitReconcile ==
    InitWith([1 .. RaceMeetings -> {MeetingM1}],
             {[f \in DriveFileIds |-> md] : md \in MetadataSet},
             {"sqlite3"},
             SUBSET (1 .. RaceMeetings))

\* sync_meeting_recording hands a candidate to the Reconciler; every later
\* call repeats the (meeting, candidate) pair of the first one
CallReconciler ==
    /\ pc["s"] \in {"idle", "return"}
    /\ hist.runs["s"] < MaxCalls
    /\ IF cur["s"].src = "none"
       THEN \E m \in DOMAIN meetings, c \in Candidates :
               cur' = [cur EXCEPT !["s"] =
                          [NoCur EXCEPT !.meeting = m, !.src = c.src,
                                        !.cand = Some(c.cand)]]
       ELSE cur' = [cur EXCEPT !["s"].defaults = None, !["s"].ret = None]
    /\ pc' = [pc EXCEPT !["s"] = "upsert"]
    /\ hist' = [hist EXCEPT !.runs["s"] = @ + 1]
    /\ UNCHANGED <<dbEngine, meetings, world, drive, rows, nextId, now, task, svc, batch>>

NextReconcile ==
    \/ CallReconciler
    \/ Upsert("s")
    \/ UpsertCreate("s")
    \/ Tick

SpecReconcile == InitReconcile /\ [][NextReconcile]_vars

\* C2: a call of the Reconciler that commits after an earlier call with the
\* same (meeting, candidate) pair has committed leaves the table as it was:
\* the meeting keeps exactly one row and every field the call writes holds
\* the value the call computed
ReconcilerIdempotent ==
    [][\A m \in DOMAIN meetings :
          (hist.commits[m] # << >> /\ hist'.commits[m] # hist.commits[m]) =>
              /\ rows' = rows
              /\ Cardinality(RowsOf(rows', m)) = 1
              /\ \A f \in DOMAIN Val(hist'.lastWrite[m]) :
                    TheRow(rows', m)[f] = Val(hist'.lastWrite[m])[f]]_vars

\* C2 witness: the Reconciler created a row, was called again later with the
\* same candidate, updated the row and returned it
ReconciledTwice ==
    \E m \in DOMAIN meetings :
        /\ pc["s"] = "return"
        /\ hist.runs["s"] >= 2
        /\ Len(hist.commits[m]) = 2
        /\ hist.commits[m][1][2] = "created"
        /\ hist.commits[m][2][2] = "updated"
        /\ now > TheRow(rows, m).created_at
        /\ cur["s"].ret = Some(TheRow(rows, m))

----------------------------------------------------------------------------
(* One call of sync_meeting_recording, over many meetings and answers *)

\* scheduled_start and scheduled_end of a meeting: none, started without
\* end, started with end, scheduled in the future
LookupTimings ==
    {<<None, None>>, <<Some(0), None>>, <<Some(0), Some(1)>>, <<Some(5), None>>}

LookupMeetings ==
    {MeetingRow(conf, ev, link, tm[1], tm[2], 0, "SCHEDULED") :
        conf \in {NULL, "cr1"}, ev \in {None, Some(1)},
        link \in {LinkA, LinkSuffix, LinkShort}, tm \in LookupTimings}

LookupAnswers ==
    {Answers(conference, code, event, date, calendar) :
        conference \in {Recordings("error", << >>), Recordings("ok", <<RecStarted>>),
                        Recordings("ok", <<RecStarted, RecA1>>)},
        code \in {Response("error", << >>), Response("ok", << >>),
                  Response("ok", <<FileD1>>), Response("ok", <<FileD1, FileD3>>)},
        event \in {Response("quota", << >>), Response("error", << >>),
                   Response("ok", << >>), Response("ok", <<FileD2>>)},
        date \in {Response("error", << >>), Response("ok", << >>),
                  Response("ok", <<FileD2>>), Response("ok", <<FileD2, FileD3>>)},
        calendar \in {Event("error", << >>), Event("ok", TitleWk)}}

LookupWorlds ==
    {[m \in {1} |-> [meeting |-> mt, answers |-> a]] :
        mt \in LookupMeetings, a \in LookupAnswers}

InitLookup == InitWith(LookupWorlds, {MainDrive}, {"sqlite3"}, {{}, {1}})

\* a caller builds RecordingSyncService() and calls sync_meeting_recording
CallSync ==
    /\ pc["s"] = "idle"
    /\ \E m \in DOMAIN meetings, cc \in BOOLEAN :
          /\ svc' = [svc EXCEPT !["s"] = [conference_client |-> cc]]
          /\ cur' = [cur EXCEPT !["s"] = [NoCur EXCEPT !.meeting = m]]
    /\ pc' = [pc EXCEPT !["s"] = "check"]
    /\ UNCHANGED <<dbEngine, meetings, world, drive, rows, nextId, now, task, batch, hist>>

NextLookup ==
    \/ CallSync
    \/ CheckExisting("s")
    \/ ConferenceLookup("s")
    \/ DriveLookup("s")
    \/ Upsert("s")
    \/ UpsertCreate("s")
    \/ Tick

SpecLookup == InitLookup /\ [][NextLookup]_vars

\* the strategies of a reconciliation, named by the request each one makes
Strategies == <<"conference", "code", "event", "date">>

Rank(c) == CHOOSE i \in DOMAIN Strategies : Strategies[i] = c

\* the strategy requests of the current reconciliation of worker w, in order
StrategyCalls(w) ==
    SelectSeq(hist.calls[w], LAMBDA c : \E i \in DOMAIN Strategies : Strategies[i] = c)

\* the inputs of strategy c are present for meeting m in the service of w
InputsPresent(c, m, w) ==
    CASE c = "conference" -> meetings[m].conference_record_id # NULL
                             /\ svc[w].conference_client
      [] c = "code"  -> meetings[m].meet_link # << >>
                        /\ Len(MeetingCode(meetings[m].meet_link)) > 5
      [] c = "event" -> ~IsNone(meetings[m].google_event_id)
      [] OTHER       -> TRUE

\* strategy c gives a candidate for meeting m
Yielded(c, m) ==
    CASE c = "conference" ->
            ~IsNone(FindRecordingFromConferenceRecord(world[m].conference))
      [] c = "code" ->
            ~IsNone(SearchRecordingByMeetingCode(MeetingCode(meetings[m].meet_link),
                                                 world[m].code).file)
      [] c = "event" -> ~IsNone(SearchRecordingByEventId(world[m].event).file)
      [] OTHER -> SearchRecordingsByDateRange(world[m].date).files # << >>

\* strategy c ends the lookup for meeting m by raising
Aborted(c, m) ==
    CASE c = "event" -> SearchRecordingByEventId(world[m].event).raised
      [] c = "date"  -> SearchRecordingsByDateRange(world[m].date).raised
      [] OTHER       -> FALSE

\* worker w has finished the lookup of a reconciliation
LookupDone(w) ==
    /\ pc[w] \in {"upsert", "create", "return"}
    /\ hist.calls[w] # << >>

\* the strategies are attempted in the fixed order, each only with its inputs
\* and only after every earlier attempt gave no candidate
ChainInOrder(w) ==
    LET calls == StrategyCalls(w)
        m == cur[w].meeting
    IN  /\ \A i, j \in DOMAIN calls : i < j => Rank(calls[i]) < Rank(calls[j])
        /\ \A i, j \in DOMAIN calls : i < j => ~Yielded(calls[i], m)
        /\ \A i \in DOMAIN calls : InputsPresent(calls[i], m, w)

\* strategy c was attempted by worker w
Attempted(c, w) == \E i \in DOMAIN hist.calls[w] : hist.calls[w][i] = c

\* C11, as stated: the strategies are attempted in the order authoritative
\* lookup, join-code search, event-id search, date-window search; a strategy
\* is attempted only if every earlier one yielded no candidate, and it is
\* attempted whenever its inputs are present and no earlier one yielded a
\* candidate
ChainOrderAsStated ==
    \A w \in Workers :
        cur[w].meeting # 0 =>
            /\ ChainInOrder(w)
            /\ LookupDone(w) =>
                  \A k \in DOMAIN Strategies :
                      (/\ InputsPresent(Strategies[k], cur[w].meeting, w)
                       /\ \A e \in 1 .. k - 1 :
                             InputsPresent(Strategies[e], cur[w].meeting, w)
                                => ~Yielded(Strategies[e], cur[w].meeting))
                          => Attempted(Strategies[k], w)

\* C11: the same order; a strategy is attempted whenever its inputs are
\* present and every earlier strategy with inputs returned without a
\* candidate, where an event-id search that raises quota-exceeded does not
\* return: it ends the lookup
ChainOrder ==
    \A w \in Workers :
        cur[w].meeting # 0 =>
            /\ ChainInOrder(w)
            /\ LookupDone(w) =>
                  \A k \in DOMAIN Strategies :
                      (/\ InputsPresent(Strategies[k], cur[w].meeting, w)
                       /\ \A e \in 1 .. k - 1 :
                             InputsPresent(Strategies[e], cur[w].meeting, w)
                                => /\ ~Yielded(Strategies[e], cur[w].meeting)
                                   /\ ~Aborted(Strategies[e], cur[w].meeting))
                          <=> Attempted(Strategies[k], w)

\* C11 witness: all four strategies were attempted, in order, and the last
\* one found the file
WholeChainAttempted ==
    /\ pc["s"] = "upsert"
    /\ hist.calls["s"] = <<"conference", "code", "event", "date">>
    /\ cur["s"].src = "drive"
    /\ Val(cur["s"].cand).id = "d2"

\* the strategy that ended the lookup of worker w
LastStrategy(w) == StrategyCalls(w)[Len(StrategyCalls(w))]

\* the lookup of worker w ended with a file of the join-code search
AcceptedByCode(w) ==
    /\ LookupDone(w)
    /\ LastStrategy(w) = "code"
    /\ cur[w].src = "drive"

\* the files that Drive lists for the join-code search of meeting m
CodeFiles(m) ==
    IF world[m].code.status = "ok" THEN world[m].code.files ELSE << >>

\* C12: the join-code search returns a file only if its name starts with the
\* meeting code, and it returns one whenever Drive lists a file whose name
\* starts with the code; a file that contains the code elsewhere is never
\* returned
JoinCodeStrictPrefix ==
    \A w \in Workers :
        LET m == cur[w].meeting
            code == MeetingCode(meetings[m].meet_link)
        IN  (m # 0 /\ LookupDone(w) /\ Attempted("code", w)) =>
                /\ AcceptedByCode(w) => StartsWith(Val(cur[w].cand).name, code)
                /\ (\E i \in DOMAIN CodeFiles(m) : StartsWith(CodeFiles(m)[i].name, code))
                      => AcceptedByCode(w)

\* C12 witness: Drive listed a file that contains the meeting code after its
\* first character, and the join-code search did not return it
ContainedCodeRejected ==
    /\ LookupDone("s")
    /\ Attempted("code", "s")
    /\ meetings[cur["s"].meeting].meet_link = LinkSuffix
    /\ CodeFiles(cur["s"].meeting) = <<FileD1>>
    /\ Contains(FileD1.name, MeetingCode(LinkSuffix))
    /\ ~AcceptedByCode("s")

\* the files listed for the join-code search of meeting m whose name starts
\* with the meeting code, in the order Drive lists them (createdTime desc)
PrefixFiles(m) ==
    SelectSeq(CodeFiles(m),
              LAMBDA f : StartsWith(f.name, MeetingCode(meetings[m].meet_link)))

\* the file the CandidateRanker selects among the prefix matches of meeting m
RankerChoice(m) == FilterRecordingsByMeeting(PrefixFiles(m), world[m].calendar)

\* C13, as stated: a single prefix match is accepted; of several prefix
\* matches the one the CandidateRanker selects is accepted
JoinCodeRankedAsStated ==
    \A w \in Workers :
        LET m == cur[w].meeting
        IN  (m # 0 /\ AcceptedByCode(w)) =>
                /\ Len(PrefixFiles(m)) = 1 => cur[w].cand = Some(PrefixFiles(m)[1])
                /\ (Len(PrefixFiles(m)) > 1 /\ ~IsNone(RankerChoice(m)))
                      => cur[w].cand = RankerChoice(m)

\* C13: a single prefix match is accepted; of several prefix matches the
\* first one in the order Drive lists them (the most recently created) is
\* accepted, and the calendar is not asked
JoinCodeFirstMatch ==
    \A w \in Workers :
        LET m == cur[w].meeting
        IN  (m # 0 /\ AcceptedByCode(w)) =>
                /\ PrefixFiles(m) # << >>
                /\ cur[w].cand = Some(PrefixFiles(m)[1])
                /\ ~Attempted("calendar", w)

\* C13 witness: two files start with the code, the first listed was accepted
\* although the ranker prefers the second
FirstOfSeveralAccepted ==
    /\ AcceptedByCode("s")
    /\ PrefixFiles(cur["s"].meeting) = <<FileD1, FileD3>>
    /\ RankerChoice(cur["s"].meeting) = Some(FileD3)
    /\ cur["s"].cand = Some(FileD1)

\* the window of the date search as the design gives it, in seconds
ClaimedWindow(mt, t) ==
    IF ~IsNone(mt.scheduled_start) /\ ~(Val(mt.scheduled_start) > t)
    THEN IF ~IsNone(mt.scheduled_end)
         THEN <<Val(mt.scheduled_start) - 5 * 60, Val(mt.scheduled_end) + 15 * 60>>
         ELSE <<Val(mt.scheduled_start) - 5 * 60, Val(mt.scheduled_start) + 2 * 3600>>
    ELSE <<mt.created_at - 3600, mt.created_at + 2 * 3600>>

----------------------------------------------------------------------------
(* Failures inside a batch run *)

\* C15: every meeting of a batch run whose reconciliation hit a
\* quota-exceeded or authentication failure of Drive, or a persistence
\* failure in the Reconciler, is counted in the errors of the run
FatalFailuresCounted ==
    BatchSelected => batch.stats.errors >= Cardinality(batch.failed)

\* C16: a failure while a meeting is reconciled does not end the batch run:
\* after its selection the task neither retries nor fails, and when it
\* returns its statistics every selected meeting has been processed, in order
BatchIsolation ==
    /\ task["b"].state \in {"RETRYING", "FAILED"} => hist.order = << >>
    /\ BatchSelected => \A m \in batch.failed : \E i \in DOMAIN hist.order : hist.order[i] = m
    /\ (BatchSelected /\ task["b"].state = "SUCCESS") =>
          /\ hist.order = batch.meetings
          /\ task["b"].result.stats.processed = Len(batch.meetings)

\* C16 witness: the reconciliation of the first meeting failed, the meetings
\* after it were processed and the run returned its statistics
LaterMeetingsProcessed ==
    /\ task["b"].state = "SUCCESS"
    /\ Len(batch.meetings) >= 2
    /\ batch.meetings[1] \in batch.failed
    /\ hist.order = batch.meetings
    /\ task["b"].result.stats.found >= 1

----------------------------------------------------------------------------
(* The endpoints POST /recordings/sync_all/ and                             *)
(* POST /meetings/{id}/sync_recording/                                      *)

\* ?limit=... of the query string
QueryParams ==
    {Absent} \cup
    {Raw("str", chars, 0) :
        chars \in {<< >>, <<"0">>, <<"-", "5">>, <<"3">>, <<"2", ".", "7">>,
                   <<"i", "n", "v", "a", "l", "i", "d">>}}

\* request.data: empty, or a JSON object with the key 'limit' whose value is
\* null, an integer, a float (2.7 and 0.5, in tenths) or a string
Bodies ==
    {Absent, Raw("null", << >>, 0), Raw("int", << >>, 0), Raw("int", << >>, -1),
     Raw("int", << >>, 2), Raw("float", << >>, 27), Raw("float", << >>, 5),
     Raw("str", <<"2">>, 0), Raw("str", <<"a">>, 0)}

\* MeetingRecordingViewSet.sync_all
SyncAll ==
    /\ task["b"].state \in {"IDLE", "SUCCESS", "FAILED"}
    /\ hist.enqueued["b"] < MaxEnqueue
    /\ \E query \in QueryParams, data \in Bodies, broker \in {"up", "down"} :
          LET limit  == IF ~Truthy(query) /\ data.kind # "absent" THEN data ELSE query
              isNone == limit.kind \in {"absent", "null"}
              arg    == IF isNone THEN 0 ELSE Val(IntOf(limit))
          IN  IF ~isNone /\ (IsNone(IntOf(limit)) \/ Val(IntOf(limit)) <= 0)
              THEN \* HTTP_400_BAD_REQUEST
                   /\ hist' = [hist EXCEPT !.http =
                                  Exchange("sync_all", 0, query, data, 400, << >>)]
                   /\ UNCHANGED task
              ELSE IF broker = "down"
              THEN \* delay raises: HTTP_500_INTERNAL_SERVER_ERROR
                   /\ hist' = [hist EXCEPT !.http =
                                  Exchange("sync_all", 0, query, data, 500, << >>)]
                   /\ UNCHANGED task
              ELSE \* sync_all_recordings_task.delay(limit=limit), HTTP_202_ACCEPTED
                   /\ task' = [task EXCEPT !["b"] =
                                  [state |-> "PENDING", retries |-> 0, arg |-> arg,
                                   result |-> NoResult]]
                   /\ hist' = [Enqueued("b") EXCEPT !.http =
                                  Exchange("sync_all", 0, query, data, 202, <<arg>>)]
    /\ UNCHANGED <<dbEngine, meetings, world, drive, rows, nextId, now, pc, svc, cur, batch>>

\* MeetingViewSet.sync_recording
SyncRecording ==
    /\ task["s"].state \in {"IDLE", "SUCCESS", "FAILED"}
    /\ hist.enqueued["s"] < MaxEnqueue
    /\ \E pk \in DOMAIN meetings \cup {MissingMeetingId}, broker \in {"up", "down"} :
          IF pk \notin DOMAIN meetings
          THEN \* get_object_or_404
               /\ hist' = [hist EXCEPT !.http =
                              Exchange("sync_recording", pk, Absent, Absent, 404, << >>)]
               /\ UNCHANGED task
          ELSE IF IsNone(meetings[pk].scheduled_start)
          THEN \* if not meeting.scheduled_start: HTTP_400_BAD_REQUEST
               /\ hist' = [hist EXCEPT !.http =
                              Exchange("sync_recording", pk, Absent, Absent, 400, << >>)]
               /\ UNCHANGED task
          ELSE IF broker = "down"
          THEN /\ hist' = [hist EXCEPT !.http =
                              Exchange("sync_recording", pk, Absent, Absent, 500, << >>)]
               /\ UNCHANGED task
          ELSE \* sync_meeting_recording_task.delay(meeting.id), HTTP_202_ACCEPTED
               /\ task' = [task EXCEPT !["s"] =
                              [state |-> "PENDING", retries |-> 0, arg |-> pk,
                               result |-> NoResult]]
               /\ hist' = [Enqueued("s") EXCEPT !.http =
                              Exchange("sync_recording", pk, Absent, Absent, 202, <<pk>>)]
    /\ UNCHANGED <<dbEngine, meetings, world, drive, rows, nextId, now, pc, svc, cur, batch>>

ViewMeetings ==
    {MeetingRow(conf, ev, link, start, None, 0, "SCHEDULED") :
        conf \in {NULL, "cr1"}, ev \in {None, Some(1)},
        link \in {NullLink, LinkA}, start \in {None, Some(0)}}

InitViews ==
    InitWith({[m \in {1} |-> [meeting |-> mt, answers |-> AllDown]] : mt \in ViewMeetings},
             {MainDrive}, {"sqlite3"}, {{}})

NextViews ==
    \/ SyncAll
    \/ SyncRecording

SpecViews == InitViews /\ [][NextViews]_vars

\* the request enqueued exactly one task of worker w, carrying arg
EnqueuedOne(x, w, arg) ==
    /\ x.status = 202
    /\ x.sent = <<arg>>
    /\ task[w].state = "PENDING"
    /\ task[w].arg = arg

\* C17: a request to sync_all whose limit is zero, negative or not an
\* integer gets status 400 and enqueues no task; a request with a positive
\* integer limit or without limit enqueues exactly one batch task carrying
\* that limit (0 stands for no limit), unless enqueuing itself fails.
SyncAllValidation ==
    LET x == hist.http
        \* the limit that the request supplies
        v == IF x.query.kind # "absent" THEN x.query ELSE x.data
        positiveInteger ==
            \/ v.kind = "int" /\ v.n > 0
            \/ v.kind = "str" /\ ~IsNone(IntOfStr(v.chars)) /\ Val(IntOfStr(v.chars)) > 0
        value == IF v.kind = "int" THEN v.n ELSE Val(IntOfStr(v.chars))
    IN  (x.endpoint = "sync_all" /\ (x.query.kind = "absent" \/ x.data.kind = "absent")) =>
           IF v.kind \in {"absent", "null"} THEN x.status # 500 => EnqueuedOne(x, "b", 0)
           ELSE IF positiveInteger THEN x.status # 500 => EnqueuedOne(x, "b", value)
           ELSE x.status = 400 /\ x.sent = << >> /\ task["b"].state = "IDLE"

\* C18: a request to sync_recording is rejected with status 400 only when the
\* meeting has neither scheduled start nor creation timestamp and no other
\* strategy input; a meeting without scheduled start that has a creation
\* timestamp and a join link is accepted and one single-meeting task is
\* enqueued for it, unless enqueuing itself fails.
SyncOneValidation ==
    LET x == hist.http
    IN  (x.endpoint = "sync_recording" /\ x.pk \in DOMAIN meetings) =>
           LET mt == meetings[x.pk]
               \* Meeting.created_at is auto_now_add and never NULL
               hasCreationTimestamp == mt.created_at \in Nat
               hasTemporalAnchor == ~IsNone(mt.scheduled_start) \/ hasCreationTimestamp
               \* what the other strategies need: a conference record, a
               \* join link, a calendar event
               otherStrategyInput ==
                   \/ HasConferenceId(mt)
                   \/ mt.meet_link # NullLink
                   \/ ~IsNone(mt.google_event_id)
           IN  /\ x.status = 400 => ~hasTemporalAnchor /\ ~otherStrategyInput
               /\ (/\ IsNone(mt.scheduled_start)
                   /\ hasCreationTimestamp
                   /\ mt.meet_link # NullLink
                   /\ x.status # 500) => EnqueuedOne(x, "s", x.pk)

----------------------------------------------------------------------------
(* A call for a meeting that already has its recording *)

\* C19: when sync_meeting_recording is called for a meeting that already has
\* a Recording and the lookup finds an artifact, the call returns the same
\* row with drive_file_id equal to the id of the artifact found, and the
\* meeting still has exactly one row.
ExistingRecordingUpdated ==
    LET m == cur["s"].meeting
        \* the file that _find_recording_in_drive gives for the meeting
        artifact == FindRecordingInDrive(meetings[m], now, world[m].code, world[m].event,
                                         world[m].date, world[m].calendar).file
        \* the row was there before the call: no upsert inserted it
        hadRecording ==
            /\ HasRecording(rows, m)
            /\ \A i \in DOMAIN hist.commits[m] : hist.commits[m][i][2] # "created"
    IN  (/\ pc["s"] = "return"
         /\ m \in DOMAIN meetings
         /\ hadRecording
         /\ meetings[m].conference_record_id = NULL
         /\ ~IsNone(artifact)) =>
           /\ Cardinality(RowsOf(rows, m)) = 1
           /\ ~IsNone(cur["s"].ret)
           /\ Val(cur["s"].ret).id = EarlierRow(m).id
           /\ Val(cur["s"].ret).drive_file_id = Val(artifact).id

----------------------------------------------------------------------------
(* What a reader of the MeetingRecording table may rely on *)

\* C20: in every reachable state a row whose recording_state is
\* FILE_GENERATED carries the drive_file_id of a recording that the
\* authoritative source reported as FILE_GENERATED for its meeting, never a
\* file id that came from the Drive search.
FileGeneratedIsAuthoritative ==
    \A r \in rows :
        LET recs == world[r.meeting].conference.recordings
            \* the files that the Conference Records API reports as generated
            reported == {recs[i].file :
                            i \in {j \in DOMAIN recs : recs[j].state = "FILE_GENERATED"}}
        IN  r.recording_state = "FILE_GENERATED" => r.drive_file_id \in reported

----------------------------------------------------------------------------
(* The scope and the statistics of a batch run *)

BatchStatsMeaning ==
    LET commits == UNION {{<<m, i>> : i \in DOMAIN hist.commits[m]} : m \in DOMAIN meetings}
        written(how) == {c \in commits : hist.commits[c[1]][c[2]] = <<"b", how>>}
    IN  task["b"].state = "SUCCESS" =>
           /\ task["b"].result.stats.created = Cardinality(written("created"))
           /\ task["b"].result.stats.updated = Cardinality(written("updated"))

----------------------------------------------------------------------------
(* The choice among several files of the date search *)

\* file names that share no word, one word or two words with the title
\* "Wk sync" of the calendar event
RankNames ==
    {<<"r", "e", "c">>, <<"w", "k", " ", "a">>, <<"S", "y", "n", "c", " ", "b">>,
     <<"S", "y", "n", "c", " ", "W", "k">>}

\* the lists of two to RankCandidates files that the date search may return
RankLists ==
    UNION {{[i \in 1 .. n |-> [id |-> <<"d1", "d2", "d3">>[((i - 1) % 3) + 1],
                               name |-> names[i]]] :
               names \in [1 .. n -> RankNames]} : n \in 2 .. RankCandidates}

\* one meeting with a calendar event whose link holds no usable meeting code;
\* the event-id search finds nothing, the date search several files
InitRank ==
    InitWith({[m \in {1} |->
                 [meeting |-> MeetingRow(NULL, Some(1), LinkShort, Some(0), None, 0,
                                         "SCHEDULED"),
                  answers |-> Answers(Recordings("ok", << >>), Response("ok", << >>),
                                      Response("ok", << >>), Response("ok", files), cal)]] :
                 files \in RankLists,
                 cal \in {Event("error", << >>), Event("ok", << >>), Event("ok", TitleWk)}},
             {MainDrive}, {"sqlite3"}, {{}})

NextRank ==
    \/ CallSync
    \/ CheckExisting("s")
    \/ DriveLookup("s")
    \/ Upsert("s")
    \/ UpsertCreate("s")

SpecRank == InitRank /\ [][NextRank]_vars

\* the lookup of the meeting chose among the several files of the date search
RankedByTitle ==
    /\ pc["s"] = "upsert"
    /\ cur["s"].src = "drive"
    /\ Len(world[cur["s"].meeting].date.files) > 1

\* C23: among several candidates sorted newest-first the one with the
\* highest count of words shared, case-insensitively, between the title of
\* the calendar event and the file name is chosen, the earliest of the list
\* among equal highest scores; when every candidate scores zero or the title
\* cannot be fetched the first candidate of the list is chosen
RankerSelection ==
    RankedByTitle =>
        LET a == world[cur["s"].meeting]
            files == a.date.files
            score(i) == Cardinality(WordSet(LowerStr(a.calendar.summary))
                                    \cap WordSet(LowerStr(files[i].name)))
            highest == CHOOSE i \in DOMAIN files :
                          /\ \A j \in DOMAIN files : score(j) <= score(i)
                          /\ \A j \in 1 .. i - 1 : score(j) < score(i)
        IN  cur["s"].cand = Some(IF a.calendar.status = "ok" /\ score(highest) > 0
                                 THEN files[highest] ELSE files[1])

\* C23 witness: two candidates share the highest score, which is not that of
\* the first candidate, and the earlier of the two was chosen
HighestScoreChosen ==
    /\ RankedByTitle
    /\ LET a == world[cur["s"].meeting]
           files == a.date.files
       IN  /\ a.calendar = Event("ok", TitleWk)
           /\ Len(files) = 3
           /\ Score(WordSet(LowerStr(TitleWk)), files[1]) = 0
           /\ Score(WordSet(LowerStr(TitleWk)), files[2]) = 1
           /\ Score(WordSet(LowerStr(TitleWk)), files[3]) = 1
           /\ cur["s"].cand = Some(files[2])

----------------------------------------------------------------------------
(* The choice among the recordings of a conference record *)

\* the lists of one to ListedRecordings recordings that the API may report,
\* in state STARTED or FILE_GENERATED, ended at 1:01.5, 1:02 or 1:02.5
ListedRecordingLists ==
    UNION {{[i \in 1 .. n |->
                [file |-> <<"a1", "a2", "a3", "a4">>[i],
                 exportUri |-> <<"exportUri", <<"a1", "a2", "a3", "a4">>[i]>>,
                 state |-> f[i][1], startTime |-> Some(Millis(1000)),
                 endTime |-> Some(Millis(f[i][2]))]] :
               f \in [1 .. n -> {"STARTED", "FILE_GENERATED"} \X {61500, 62000, 62500}]} :
           n \in 1 .. ListedRecordings}

\* one meeting with a conference record; the Drive searches find nothing
InitAuthoritative ==
    InitWith({[m \in {1} |->
                 [meeting |-> MeetingRow("cr1", None, LinkShort, Some(0), None, 0, "FINISHED"),
                  answers |-> Answers(Recordings("ok", recs), Response("ok", << >>),
                                      Response("ok", << >>), Response("ok", << >>),
                                      Event("error", << >>))]] :
                 recs \in ListedRecordingLists},
             {MainDrive}, {"sqlite3"}, {{}})

NextAuthoritative ==
    \/ CallSync
    \/ CheckExisting("s")
    \/ ConferenceLookup("s")
    \/ DriveLookup("s")
    \/ Upsert("s")
    \/ UpsertCreate("s")

SpecAuthoritative == InitAuthoritative /\ [][NextAuthoritative]_vars

\* C24: the candidate returned by the authoritative lookup has state
\* FILE_GENERATED; of several FILE_GENERATED recordings the one with the
\* latest end timestamp is returned, the first listed among those with equal
\* end timestamps; when none is FILE_GENERATED the lookup yields nothing
AuthoritativeSelection ==
    LET m == cur["s"].meeting
        recs == world[m].conference.recordings
        generated == {i \in DOMAIN recs : recs[i].state = "FILE_GENERATED"}
        end(i) == Val(FromIsoFormat(Val(recs[i].endTime), "3.11"))
        latest == CHOOSE i \in generated :
                     /\ \A j \in generated : end(j) <= end(i)
                     /\ \A j \in generated : j < i => end(j) < end(i)
    IN  (m \in DOMAIN meetings /\ "conference" \in {hist.calls["s"][i] : i \in DOMAIN hist.calls["s"]}) =>
           IF generated = {}
           THEN ~hist.apiFound["s"] /\ cur["s"].src # "api"
           ELSE hist.apiFound["s"] /\ cur["s"].src = "api" /\ cur["s"].cand = Some(recs[latest])

----------------------------------------------------------------------------
(* Failures inside one strategy *)

----------------------------------------------------------------------------
(* A batch run on a worker that keeps executing *)

\* the steps of the worker that runs the batch task
BatchWorker ==
    \/ StartTask("b")
    \/ BatchSelect
    \/ BatchLoop
    \/ CheckExisting("b")
    \/ ConferenceLookup("b")
    \/ DriveLookup("b")
    \/ Upsert("b")
    \/ UpsertCreate("b")
    \/ BatchAccount

\* the Celery worker executes the next step of a task it has; every request
\* to Google and to the database returns or raises
NextBatchFair ==
    \/ EnqueueBatch
    \/ BatchWorker

\* the tables of the batch specification on SQLite, no meeting with a
\* recording
InitBatchFair == InitWith(BatchWorlds, {MainDrive}, {"sqlite3"}, {{}})

SpecBatchFair == InitBatchFair /\ [][NextBatchFair]_vars /\ WF_vars(BatchWorker)

\* C26: a batch run, once started, terminates; it processes the meetings of
\* its selection one at a time in the order computed at selection time, each
\* exactly once, and when the run returns processed is the size of the
\* selection
SequentialBatch ==
    /\ [](BatchSelected =>
            /\ Len(hist.order) <= Len(batch.meetings)
            /\ \A i \in DOMAIN hist.order : hist.order[i] = batch.meetings[i]
            /\ \A i, j \in DOMAIN hist.order : i # j => hist.order[i] # hist.order[j]
            /\ batch.stats.processed = Len(hist.order)
            /\ task["b"].state = "SUCCESS" =>
                  /\ hist.order = batch.meetings
                  /\ task["b"].result.stats.processed = Len(batch.meetings))
    /\ (task["b"].state = "RUNNING") ~> (task["b"].state \in {"SUCCESS", "FAILED"})

\* C26 witness: a run over a selection of several meetings returned after
\* processing each of them once, in the order of the selection
SelectionProcessedInOrder ==
    /\ task["b"].state = "SUCCESS"
    /\ Len(batch.meetings) >= 2
    /\ hist.order = batch.meetings
    /\ task["b"].result.stats.processed = Len(batch.meetings)

----------------------------------------------------------------------------
(* The life of a MeetingRecording row *)

\* C27: a meeting that has a Recording row has one in every later state
\* reached by single-meeting syncs, batch runs, task retries and the
\* cancellation of the meeting, and a step that changes the table of Recording
\* rows is the create-or-update of the Reconciler
RecordingPersistenceMonotone ==
    [][/\ \A m \in DOMAIN meetings : HasRecording(rows, m) => HasRecording(rows', m)
       /\ rows' # rows =>
             \E w \in Workers :
                /\ pc[w] \in {"upsert", "create"}
                /\ pc'[w] = "return"
                /\ Len(hist'.commits[cur[w].meeting]) = Len(hist.commits[cur[w].meeting]) + 1
                /\ \A r \in rows' \ rows : r.meeting = cur[w].meeting
                /\ \A r \in rows \ rows' : r.meeting = cur[w].meeting]_vars

\* C27 witness: the row that one task created was superseded in place by a
\* later write, the meeting was cancelled, and the row is still there
RowSurvivedSupersedingAndCancel ==
    \E m \in DOMAIN meetings :
       /\ Len(hist.commits[m]) >= 2
       /\ hist.commits[m][1][2] = "created"
       /\ meetings[m].status = "CANCELLED"
       /\ HasRecording(rows, m)
       /\ task["s"].state = "SUCCESS"
       /\ task["b"].state = "SUCCESS"

----------------------------------------------------------------------------
(* The fields that the Reconciler persists *)

\* one meeting whose recording is reconciled from one source: either its
\* conference record lists one finished recording, with or without each of
\* its timestamps, the timestamps printed with no, three, six or nine digits
\* of fraction, or the search by meeting code finds a file, served by Drive
\* with or without durationMillis and createdTime
InitNormalize ==
    LET starts == {None, Some(Stamp(1, 0, 0)), Some(Stamp(1, 3, 500)),
                   Some(Stamp(1, 9, 900)), Some(Stamp(3, 0, 0))}
        ends == {None, Some(Stamp(2, 0, 0)), Some(Stamp(2, 3, 250)),
                 Some(Stamp(2, 9, 100)), Some(Stamp(62, 6, 999999))}
        listed(s, e) == [file |-> "a1", exportUri |-> <<"exportUri", "a1">>,
                         state |-> "FILE_GENERATED", startTime |-> s, endTime |-> e]
        fromApi == {[meeting |-> MeetingRow("cr1", None, LinkA, Some(0), None, 0, "FINISHED"),
                     answers |-> Answers(Recordings("ok", <<listed(s, e)>>),
                                         Response("ok", << >>), Response("ok", << >>),
                                         Response("ok", << >>), Event("error", << >>))] :
                       s \in starts, e \in ends}
        fromDrive == [meeting |-> MeetingRow(NULL, None, LinkA, Some(0), None, 0, "FINISHED"),
                      answers |-> Answers(Recordings("ok", << >>),
                                          Response("ok", <<FileD1>>), Response("ok", << >>),
                                          Response("ok", << >>), Event("error", << >>))]
        served == [webViewLink : BOOLEAN,
                   durationMillis : {Absent, DurationMillis61999, Raw("str", <<"0">>, 0),
                                     Raw("str", <<"9", "9", "9">>, 0)},
                   createdTime : {None, Some(Stamp(7, 3, 0)), Some(Stamp(9, 3, 250))}]
    IN  InitWith({[m \in {1} |-> sc] : sc \in fromApi \cup {fromDrive}},
                 {[f \in DriveFileIds |-> md] : md \in served}, {"sqlite3"}, {{}})

SpecNormalize == InitNormalize /\ [][NextAuthoritative]_vars

\* C28: the row persisted from a recording of the API has as duration the
\* whole seconds of end - start, truncated, and as available_at the end
\* timestamp (to the microsecond that a datetime holds); the row persisted
\* from a Drive file has as duration durationMillis / 1000, truncated, when
\* the metadata has durationMillis and none otherwise, and as available_at
\* the createdTime of the file
FieldNormalization ==
    LET row == Val(cur["s"].ret)
        cand == Val(cur["s"].cand)
        nanos(ts) == ts.frac * Pow10(9 - ts.digits)
        before(a, b) == a.sec < b.sec \/ (a.sec = b.sec /\ nanos(a) < nanos(b))
        span(a, b) == b.sec - a.sec - (IF nanos(b) < nanos(a) THEN 1 ELSE 0)
        wholeSeconds(a, b) == IF before(b, a) THEN -span(b, a) ELSE span(a, b)
        micros(ts) == ts.sec * 1000000 + nanos(ts) \div 1000
        md == drive[cand.id]
    IN  (pc["s"] = "return" /\ ~IsNone(cur["s"].ret)) =>
           /\ cur["s"].src = "api" =>
                 /\ (~IsNone(cand.startTime) /\ ~IsNone(cand.endTime)) =>
                       row.duration_seconds =
                          Some(wholeSeconds(Val(cand.startTime), Val(cand.endTime)))
                 /\ ~IsNone(cand.endTime) =>
                       row.available_at = Some(micros(Val(cand.endTime)))
           /\ cur["s"].src = "drive" =>
                 /\ row.duration_seconds =
                       IF md.durationMillis.kind = "absent" THEN None
                       ELSE Some(DecimalValue(md.durationMillis.chars, 1, 0) \div 1000)
                 /\ row.available_at =
                       IF IsNone(md.createdTime) THEN None
                       ELSE Some(micros(Val(md.createdTime)))

----------------------------------------------------------------------------
(* The statistics that a batch run returns *)

\* C29: in every result that the batch task returns found = created +
\* updated, found + errors <= processed, processed is the number of meetings
\* selected (none when the run failed before its loop), and the five counters
\* are not negative
BatchStatsConsistent ==
    LET st == task["b"].result.stats
    IN  task["b"].state \in {"SUCCESS", "FAILED"} =>
           /\ st.found = st.created + st.updated
           /\ st.found + st.errors <= st.processed
           /\ st.processed = IF task["b"].state = "SUCCESS" THEN Len(batch.meetings)
                             ELSE Len(hist.order)
           /\ \A c \in DOMAIN st : st[c] >= 0

\* C29 witness: a run returned after it created the row of one meeting,
\* counted another as updated and found nothing for a third
MixedStatsReturned ==
    /\ task["b"].state = "SUCCESS"
    /\ task["b"].result.stats.created >= 1
    /\ task["b"].result.stats.updated >= 1
    /\ task["b"].result.stats.processed > task["b"].result.stats.found

----------------------------------------------------------------------------
(* The exceptions of sync_meeting_recording *)

====
